---- MODULE Spec2Model ----
(***************************************************************************)
(* Model of the compact FST representation of OpenFst (compact-fst.h), its *)
(* binary body I/O and the stream alignment helpers (util.cc).             *)
(***************************************************************************)
EXTENDS Integers, Sequences, FiniteSets, TLC

(***************************************************************************)
(* Bounds of the model.                                                    *)
(***************************************************************************)
\* Largest number of states of an input FST.
MaxStates == 2
\* Largest total number of arcs of an input FST.
MaxArcs == 2
\* Largest length of an input range of already compacted elements.
MaxRange == 3

(***************************************************************************)
(* Labels, state ids, weights, arcs.                                       *)
(***************************************************************************)
kNoLabel == -1
kNoStateId == -1

\* Weights of the semiring, as far as the representation distinguishes them:
\* Zero (non-final), One, and one further member W.
WZero == "Zero"
WOne == "One"
WOther == "W"
Weights == {WZero, WOne, WOther}

Arc(il, ol, w, ns) == [ilabel |-> il, olabel |-> ol, weight |-> w, nextstate |-> ns]

\* The superfinal transition that encodes the final weight w.
SuperFinal(w) == Arc(kNoLabel, kNoLabel, w, kNoStateId)

RECURSIVE SumSeq(_)
SumSeq(q) == IF q = <<>> THEN 0 ELSE Head(q) + SumSeq(Tail(q))

(***************************************************************************)
(* The five standard compactors.                                           *)
(***************************************************************************)
Compactors == {"string", "weighted_string", "unweighted_acceptor", "acceptor", "unweighted"}

\* Compactor::Size(): the fixed out-degree, or -1 for variable out-degree.
Size(c) == IF c \in {"string", "weighted_string"} THEN 1 ELSE -1

\* Compactor::Properties(): the properties every compacted FST has.
CompactorProperties(c) ==
    CASE c = "string" -> {"kString", "kAcceptor", "kUnweighted"}
      [] c = "weighted_string" -> {"kString", "kAcceptor"}
      [] c = "unweighted_acceptor" -> {"kAcceptor", "kUnweighted"}
      [] c = "acceptor" -> {"kAcceptor"}
      [] c = "unweighted" -> {"kUnweighted"}

\* Compact with the Unweighted compactor storing the input label twice.
CompactLosingOLabel(c, s, arc) ==
    CASE c = "string" -> arc.ilabel
      [] c = "weighted_string" -> <<arc.ilabel, arc.weight>>
      [] c = "unweighted_acceptor" -> <<arc.ilabel, arc.nextstate>>
      [] c = "acceptor" -> <<<<arc.ilabel, arc.weight>>, arc.nextstate>>
      [] c = "unweighted" -> <<<<arc.ilabel, arc.ilabel>>, arc.nextstate>>

\* Compactor::Compact(s, arc): the element that stands for arc at state s.
Compact(c, s, arc) ==
    CASE c = "string" -> arc.ilabel
      [] c = "weighted_string" -> <<arc.ilabel, arc.weight>>
      [] c = "unweighted_acceptor" -> <<arc.ilabel, arc.nextstate>>
      [] c = "acceptor" -> <<<<arc.ilabel, arc.weight>>, arc.nextstate>>
      [] c = "unweighted" -> <<<<arc.ilabel, arc.olabel>>, arc.nextstate>>

\* Compactor::Expand(s, e): the transition at state s that element e stands for.
Expand(c, s, e) ==
    CASE c = "string" ->
           Arc(e, e, WOne, IF e # kNoLabel THEN s + 1 ELSE kNoStateId)
      [] c = "weighted_string" ->
           Arc(e[1], e[1], e[2], IF e[1] # kNoLabel THEN s + 1 ELSE kNoStateId)
      [] c = "unweighted_acceptor" -> Arc(e[1], e[1], WOne, e[2])
      [] c = "acceptor" -> Arc(e[1][1], e[1][1], e[1][2], e[2])
      [] c = "unweighted" -> Arc(e[1][1], e[1][2], WOne, e[2])

(***************************************************************************)
(* Input FSTs.  An FST is [start, final, arcs]: final[s+1] is the final    *)
(* weight of state s and arcs[s+1] the sequence of its out-arcs in         *)
(* iteration order.                                                        *)
(***************************************************************************)
NumStatesOf(F) == Len(F.final)
FinalOf(F, s) == F.final[s + 1]
ArcsOf(F, s) == F.arcs[s + 1]
NumArcsOf(F) == SumSeq([i \in 1..Len(F.arcs) |-> Len(F.arcs[i])])
NumFinalsOf(F) == Cardinality({i \in 1..Len(F.final) : F.final[i] # WZero})

\* Properties of an input FST (computed as fst.Properties(props, true) does).
IsAcceptor(F) ==
    \A i \in 1..Len(F.arcs) : \A j \in 1..Len(F.arcs[i]) :
        F.arcs[i][j].ilabel = F.arcs[i][j].olabel
IsUnweighted(F) ==
    /\ \A i \in 1..Len(F.arcs) : \A j \in 1..Len(F.arcs[i]) :
           F.arcs[i][j].weight \in {WZero, WOne}
    /\ \A i \in 1..Len(F.final) : F.final[i] \in {WZero, WOne}
IsString(F) ==
    /\ F.start \in {kNoStateId, 0}
    /\ \A i \in 1..Len(F.arcs) : \A j \in 1..Len(F.arcs[i]) :
           F.arcs[i][j].nextstate = i
    /\ \A i \in 1..Len(F.final) :
           /\ (F.final[i] # WZero) => (i = Len(F.final))
           /\ (F.final[i] = WZero) => (Len(F.arcs[i]) = 1)
FstProperties(F) ==
    (IF IsAcceptor(F) THEN {"kAcceptor"} ELSE {})
      \cup (IF IsUnweighted(F) THEN {"kUnweighted"} ELSE {})
      \cup (IF IsString(F) THEN {"kString"} ELSE {})
      \cup (IF \A i \in 1..Len(F.arcs) : \A j \in 2..Len(F.arcs[i]) :
                   F.arcs[i][j - 1].ilabel <= F.arcs[i][j].ilabel
             THEN {"kILabelSorted"} ELSE {})
      \cup (IF \A i \in 1..Len(F.arcs) : \A j \in 2..Len(F.arcs[i]) :
                   F.arcs[i][j - 1].olabel <= F.arcs[i][j].olabel
             THEN {"kOLabelSorted"} ELSE {})

\* Compactor::Compatible(fst).
Compatible(c, F) == CompactorProperties(c) \subseteq FstProperties(F)

\* The label / weight shapes of the arcs of the input FSTs.
ArcShapes == {<<0, 0, WOne>>, <<1, 1, WOne>>, <<1, 1, WOther>>, <<1, 2, WOne>>}
ArcsInto(n) == {Arc(sh[1], sh[2], sh[3], ns) : sh \in ArcShapes, ns \in 0..(n - 1)}
StartsOf(n) == IF n = 0 THEN {kNoStateId} ELSE {0, n - 1}

ArclessFsts(n) ==
    {[start |-> st, final |-> f, arcs |-> [i \in 1..n |-> <<>>]] :
        st \in StartsOf(n), f \in [1..n -> Weights]}
RECURSIVE FstsWithArcs(_, _)
FstsWithArcs(n, k) ==
    IF k = 0 THEN ArclessFsts(n)
    ELSE LET S == FstsWithArcs(n, k - 1)
         IN  S \cup {[F EXCEPT !.arcs[i] = Append(@, a)] :
                        F \in S, i \in 1..n, a \in ArcsInto(n)}
FstInputs == UNION {FstsWithArcs(n, MaxArcs) : n \in 0..MaxStates}

(***************************************************************************)
(* DefaultCompactStore.  states[s+1] models states_[s], compacts[i+1]      *)
(* models compacts_[i]; has_states is states_ != nullptr.                  *)
(***************************************************************************)
\* DefaultCompactStore(): the default-constructed store.
EmptyStore ==
    [states |-> <<>>, has_states |-> FALSE, compacts |-> <<>>,
     nstates |-> 0, ncompacts |-> 0, narcs |-> 0, start |-> kNoStateId,
     error |-> FALSE]

\* new Unsigned[nstates + 1] with states_[nstates] = ncompacts; every other
\* entry is overwritten by the fill loop before the constructor returns.
NewStates(nstates, ncompacts) ==
    [i \in 1..(nstates + 1) |-> IF i = nstates + 1 THEN ncompacts ELSE 0]

\* The fill loop's elements with the superfinal transition stored last.
StateElementsFinalLast(F, c, s) ==
    [j \in 1..Len(ArcsOf(F, s)) |-> Compact(c, s, ArcsOf(F, s)[j])]
      \o (IF FinalOf(F, s) # WZero
             THEN <<Compact(c, s, SuperFinal(FinalOf(F, s)))>> ELSE <<>>)

\* The elements the fill loop stores for state s of F: the superfinal
\* transition when s is final, then the arcs of s in iteration order.
StateElements(F, c, s) ==
    (IF FinalOf(F, s) # WZero
        THEN <<Compact(c, s, SuperFinal(FinalOf(F, s)))>> ELSE <<>>)
      \o [j \in 1..Len(ArcsOf(F, s)) |-> Compact(c, s, ArcsOf(F, s)[j])]

\* The fill loop without the per-state out-degree check.
RECURSIVE FillFromFstNoDegreeCheck(_, _, _, _)
FillFromFstNoDegreeCheck(F, c, s, st) ==
    IF s >= st.nstates
    THEN IF Len(st.compacts) # st.ncompacts THEN [st EXCEPT !.error = TRUE] ELSE st
    ELSE LET fpos == Len(st.compacts)
             st1 == IF Size(c) = -1 THEN [st EXCEPT !.states[s + 1] = fpos] ELSE st
             st2 == [st1 EXCEPT !.compacts = @ \o StateElements(F, c, s)]
         IN  FillFromFstNoDegreeCheck(F, c, s + 1, st2)

\* The fill loop of the constructor from an FST, from state s on.
RECURSIVE FillFromFst(_, _, _, _)
FillFromFst(F, c, s, st) ==
    IF s >= st.nstates
    THEN IF Len(st.compacts) # st.ncompacts THEN [st EXCEPT !.error = TRUE] ELSE st
    ELSE LET fpos == Len(st.compacts)
             st1 == IF Size(c) = -1 THEN [st EXCEPT !.states[s + 1] = fpos] ELSE st
             st2 == [st1 EXCEPT !.compacts = @ \o StateElements(F, c, s)]
         IN  IF Size(c) # -1 /\ (Len(st2.compacts) - fpos) # Size(c)
             THEN [st2 EXCEPT !.error = TRUE]
             ELSE FillFromFst(F, c, s + 1, st2)

\* DefaultCompactStore(const Fst<Arc> &fst, const Compactor &compactor).
StoreFromFst(F, c) ==
    LET nstates == NumStatesOf(F)
        narcs == NumArcsOf(F)
        nfinals == NumFinalsOf(F)
        counted == [EmptyStore EXCEPT !.start = F.start, !.nstates = nstates,
                                      !.narcs = narcs]
    IN  IF Size(c) = -1
        THEN FillFromFst(F, c, 0,
                 [counted EXCEPT !.ncompacts = narcs + nfinals,
                                 !.has_states = TRUE,
                                 !.states = NewStates(nstates, narcs + nfinals)])
        ELSE IF (narcs + nfinals) # nstates * Size(c)
             THEN [counted EXCEPT !.ncompacts = nstates * Size(c), !.error = TRUE]
             ELSE FillFromFst(F, c, 0, [counted EXCEPT !.ncompacts = nstates * Size(c)])

\* Number of elements of a range that expand to a proper arc.
RECURSIVE CountArcs(_, _, _)
CountArcs(c, elems, i) ==
    IF i >= Len(elems) THEN 0
    ELSE (IF Expand(c, i, elems[i + 1]).ilabel # kNoLabel THEN 1 ELSE 0)
           + CountArcs(c, elems, i + 1)

\* The fixed out-degree branch without the implicit final element of strings.
FixedStoreFromRangeNoImplicitFinal(elems, c) ==
    LET ncompacts == Len(elems)
    IN  IF ncompacts % Size(c) # 0
        THEN [EmptyStore EXCEPT !.ncompacts = ncompacts, !.error = TRUE]
        ELSE IF ncompacts = 0 THEN EmptyStore
        ELSE [EmptyStore EXCEPT
                 !.ncompacts = ncompacts,
                 !.start = 0,
                 !.nstates = ncompacts \div Size(c),
                 !.narcs = CountArcs(c, elems, 0),
                 !.compacts = elems]

\* Fixed out-degree branch of the constructor from an element range.
FixedStoreFromRange(elems, c) ==
    LET dist == Len(elems)
        ncompacts ==
            IF Size(c) = 1
            THEN IF dist = 0 THEN dist + 1
                 ELSE IF Expand(c, dist - 1, elems[dist]).ilabel # kNoLabel
                      THEN dist + 1 ELSE dist
            ELSE dist
    IN  IF ncompacts % Size(c) # 0
        THEN [EmptyStore EXCEPT !.ncompacts = ncompacts, !.error = TRUE]
        ELSE IF ncompacts = 0 THEN EmptyStore
        ELSE [EmptyStore EXCEPT
                 !.ncompacts = ncompacts,
                 !.start = 0,
                 !.nstates = ncompacts \div Size(c),
                 !.narcs = CountArcs(c, elems, 0),
                 !.compacts =
                     IF dist < ncompacts
                     THEN elems \o <<Compact(c, dist, SuperFinal(WOne))>>
                     ELSE elems]

\* The second loop of the variable out-degree branch, from element k on:
\* i is the next position in compacts_ and each superfinal element opens a
\* state.
RECURSIVE FillFromRange(_, _, _, _)
FillFromRange(c, elems, k, st) ==
    IF k > Len(elems) THEN st
    ELSE LET i == Len(st.compacts)
             arc == Expand(c, i, elems[k])
         IN  IF arc.ilabel # kNoLabel
             THEN FillFromRange(c, elems, k + 1,
                      [st EXCEPT !.compacts = Append(@, elems[k])])
             ELSE FillFromRange(c, elems, k + 1,
                      [st EXCEPT !.s = @ + 1,
                                 !.states[st.s + 1] = i,
                                 !.compacts = IF arc.weight # WZero
                                              THEN Append(@, elems[k]) ELSE @])

\* Variable out-degree branch of the constructor from an element range.
VariableStoreFromRange(elems, c) ==
    IF Len(elems) = 0 THEN EmptyStore
    ELSE LET ex(i) == Expand(c, i - 1, elems[i])
             idx == 1..Len(elems)
             narcs == Cardinality({i \in idx : ex(i).ilabel # kNoLabel})
             nstates == Cardinality({i \in idx : ex(i).ilabel = kNoLabel})
             ncompacts == narcs + Cardinality({i \in idx : ex(i).ilabel = kNoLabel
                                                          /\ ex(i).weight # WZero})
             filled == FillFromRange(c, elems, 1,
                           [s |-> 0, compacts |-> <<>>,
                            states |-> NewStates(nstates, ncompacts)])
         IN  [EmptyStore EXCEPT
                 !.narcs = narcs, !.nstates = nstates, !.ncompacts = ncompacts,
                 !.start = 0, !.has_states = TRUE,
                 !.states = filled.states, !.compacts = filled.compacts,
                 !.error = (filled.s # nstates) \/ (Len(filled.compacts) # ncompacts)]

\* DefaultCompactStore(const Iterator &begin, const Iterator &end,
\*                     const Compactor &compactor).
StoreFromRange(elems, c) ==
    IF Size(c) # -1 THEN FixedStoreFromRange(elems, c)
    ELSE VariableStoreFromRange(elems, c)

(***************************************************************************)
(* Input ranges of already compacted elements, per compactor.              *)
(***************************************************************************)
RangeElements(c) ==
    CASE c = "string" -> {kNoLabel, 1, 2}
      [] c = "weighted_string" ->
           {<<kNoLabel, WZero>>, <<kNoLabel, WOther>>, <<1, WOne>>, <<2, WOther>>}
      [] c = "unweighted_acceptor" ->
           {<<kNoLabel, kNoStateId>>, <<1, 0>>, <<2, 1>>}
      [] c = "acceptor" ->
           {<<<<kNoLabel, WZero>>, kNoStateId>>, <<<<kNoLabel, WOther>>, kNoStateId>>,
            <<<<1, WOne>>, 0>>, <<<<2, WOther>>, 1>>}
      [] c = "unweighted" ->
           {<<<<kNoLabel, kNoLabel>>, kNoStateId>>, <<<<1, 2>>, 0>>, <<<<2, 2>>, 1>>}
RangeInputs(c) == UNION {[1..n -> RangeElements(c)] : n \in 0..MaxRange}

\* The single-state FST of the empty string: start 0, Final(0) = One, no arcs.
EmptyStringFst == [start |-> 0, final |-> <<WOne>>, arcs |-> <<<<>>>>]

(***************************************************************************)
(* FstImpl properties: a set of property names.                            *)
(***************************************************************************)
kStaticProperties == {"kExpanded"}

\* FstImpl::SetProperties(props): kError cannot be cleared.
SetProperties(old, new) == (old \cap {"kError"}) \cup new

\* FstImpl::SetProperties(props, mask): kError cannot be cleared.
SetPropertiesMask(old, new, mask) ==
    (old \ (mask \ {"kError"})) \cup (new \cap mask)

(***************************************************************************)
(* CompactFstImpl.                                                         *)
(***************************************************************************)
\* CompactFstImpl::ComputeArc(s, i).
ComputeArc(c, d, s, i) == Expand(c, s, d.compacts[i + 1])

\* CompactFstImpl::Final(s), state s not cached.
ImplFinal(c, d, s) ==
    LET arc == IF (Size(c) # -1) \/ (d.states[s + 1] # d.states[s + 2])
               THEN ComputeArc(c, d, s, IF Size(c) = -1 THEN d.states[s + 1]
                                                        ELSE s * Size(c))
               ELSE SuperFinal(WZero)
    IN  IF arc.ilabel = kNoLabel THEN arc.weight ELSE WZero

\* CompactFstImpl::NumStates().
ImplNumStates(p, d) == IF "kError" \in p THEN 0 ELSE d.nstates

\* CompactFstImpl::NumArcs(s), state s not cached.
ImplNumArcs(c, d, s) ==
    LET i == IF Size(c) = -1 THEN d.states[s + 1] ELSE s * Size(c)
        num_arcs == IF Size(c) = -1 THEN d.states[s + 2] - i ELSE Size(c)
    IN  IF num_arcs > 0 /\ ComputeArc(c, d, s, i).ilabel = kNoStateId
        THEN num_arcs - 1 ELSE num_arcs

\* The properties CompactFstImpl::Init(fst, data) leaves on the FST.
InitFromFstProperties(c, F, d) ==
    LET p0 == {}
        p1 == IF d.error THEN SetPropertiesMask(p0, {"kError"}, {"kError"}) ELSE p0
        copy_properties == FstProperties(F)
    IN  IF ("kError" \in copy_properties) \/ ~Compatible(c, F)
        THEN SetPropertiesMask(p1, {"kError"}, {"kError"})
        ELSE SetProperties(p1, copy_properties \cup kStaticProperties)

\* The properties CompactFstImpl::Init(begin, end) leaves on the FST.
InitFromRangeProperties(c, d) ==
    LET p1 == SetProperties({}, kStaticProperties \cup CompactorProperties(c))
    IN  IF d.error THEN SetPropertiesMask(p1, {"kError"}, {"kError"}) ELSE p1

(***************************************************************************)
(* ArcIterator<CompactFst>: offset is the index of *compacts_ in the       *)
(* store's compacts_ array.                                                *)
(***************************************************************************)
\* The arc iterator flags that select which fields of the arc Value()
\* has to compute; kArcNoCache is an iterator flag outside them.
kArcValueFlags ==
    {"kArcILabelValue", "kArcOLabelValue", "kArcWeightValue", "kArcNextStateValue"}

\* ArcIterator::SetFlags(f, m) on the flags flags_: a set of flag bits.
SetFlags(flags_, f, m) == (flags_ \ m) \cup (f \cap kArcValueFlags)

NoIterator ==
    [live |-> FALSE, state |-> 0, offset |-> 0, pos |-> 0, num_arcs |-> 0,
     valued |-> FALSE, arc |-> SuperFinal(WZero), flags |-> kArcValueFlags]

\* An iterator that does not step over the superfinal element.
NewArcIteratorNoSkip(c, d, s) ==
    LET offset == IF Size(c) = -1 THEN d.states[s + 1] ELSE s * Size(c)
        num_arcs == IF Size(c) = -1 THEN d.states[s + 2] - offset ELSE Size(c)
    IN  [live |-> TRUE, state |-> s, offset |-> offset, pos |-> 0,
         num_arcs |-> num_arcs, valued |-> FALSE, arc |-> SuperFinal(WZero),
         flags |-> kArcValueFlags]

\* ArcIterator(fst, s).
NewArcIterator(c, d, s) ==
    LET offset == IF Size(c) = -1 THEN d.states[s + 1] ELSE s * Size(c)
        num_arcs == IF Size(c) = -1 THEN d.states[s + 2] - offset ELSE Size(c)
        skip == num_arcs > 0 /\ Expand(c, s, d.compacts[offset + 1]).ilabel = kNoStateId
    IN  [live |-> TRUE, state |-> s,
         offset |-> IF skip THEN offset + 1 ELSE offset,
         pos |-> 0,
         num_arcs |-> IF skip THEN num_arcs - 1 ELSE num_arcs,
         valued |-> FALSE, arc |-> SuperFinal(WZero), flags |-> kArcValueFlags]

\* ArcIterator::Done().
IterDone(it) == it.pos >= it.num_arcs

\* ArcIterator::Value(): the arc at the current position.
IterValue(c, d, it) == Expand(c, it.state, d.compacts[it.offset + it.pos + 1])

(***************************************************************************)
(* Streams.  A stream is a byte position with the cells written to it or   *)
(* still to be read from it; a cell is one array entry or one padding      *)
(* byte, [kind, bytes, val].  tellable is whether the stream buffer can    *)
(* report its position.                                                    *)
(***************************************************************************)
\* MappedFile::kArchAlignment, the default of AlignInput and AlignOutput.
kArchAlignment == 16
\* sizeof(Unsigned) for the default index type uint32.
SizeofUnsigned == 4
\* sizeof(Element) of each standard compactor over StdArc.
SizeofElement(c) ==
    CASE c = "string" -> 4
      [] c = "weighted_string" -> 8
      [] c = "unweighted_acceptor" -> 8
      [] c = "acceptor" -> 12
      [] c = "unweighted" -> 12

PadCell == [kind |-> "pad", bytes |-> 1, val |-> <<>>]
StateCell(x) == [kind |-> "state", bytes |-> SizeofUnsigned, val |-> <<x>>]
ElementCell(c, e) == [kind |-> "element", bytes |-> SizeofElement(c), val |-> <<e>>]
CellBytes(toks) == SumSeq([i \in 1..Len(toks) |-> toks[i].bytes])

OutStream(p, tellable) == [pos |-> p, tellable |-> tellable, good |-> TRUE, toks |-> <<>>]
InStream(p, tellable, toks) == [pos |-> p, tellable |-> tellable, good |-> TRUE, toks |-> toks]

\* strm.tellp() / strm.tellg(): -1 when the stream has failed or its buffer
\* cannot report a position.
Tell(strm) == IF strm.good /\ strm.tellable THEN strm.pos ELSE -1

\* strm.write(...) of the given cells.
StreamWrite(strm, toks) ==
    IF strm.good
    THEN [strm EXCEPT !.pos = @ + CellBytes(toks), !.toks = @ \o toks]
    ELSE strm

\* strm.read(&c, 1): consumes one byte, or fails at the end of the stream.
StreamReadByte(strm) ==
    IF ~strm.good THEN strm
    ELSE IF strm.toks = <<>> THEN [strm EXCEPT !.good = FALSE]
    ELSE IF Head(strm.toks).bytes = 1
         THEN [strm EXCEPT !.pos = @ + 1, !.toks = Tail(@)]
         ELSE [strm EXCEPT !.pos = @ + 1,
                           !.toks = <<[kind |-> "partial",
                                       bytes |-> Head(strm.toks).bytes - 1,
                                       val |-> <<>>]>> \o Tail(@)]

\* AlignOutput writing the padding byte before it tests the position.
RECURSIVE AlignOutputWriteFirst(_, _, _)
AlignOutputWriteFirst(strm, align, i) ==
    IF i >= align THEN [ok |-> TRUE, strm |-> strm]
    ELSE LET pos == Tell(strm)
             next == StreamWrite(strm, <<PadCell>>)
         IN  IF pos < 0 THEN [ok |-> FALSE, strm |-> strm]
             ELSE IF (pos + 1) % align = 0 THEN [ok |-> TRUE, strm |-> next]
             ELSE AlignOutputWriteFirst(next, align, i + 1)

\* bool AlignOutput(std::ostream &strm, size_t align), from iteration i on.
RECURSIVE AlignOutputFrom(_, _, _)
AlignOutputFrom(strm, align, i) ==
    IF i >= align THEN [ok |-> TRUE, strm |-> strm]
    ELSE LET pos == Tell(strm)
         IN  IF pos < 0 THEN [ok |-> FALSE, strm |-> strm]
             ELSE IF pos % align = 0 THEN [ok |-> TRUE, strm |-> strm]
             ELSE AlignOutputFrom(StreamWrite(strm, <<PadCell>>), align, i + 1)
AlignOutput(strm, align) == AlignOutputFrom(strm, align, 0)

\* bool AlignInput(std::istream &strm, size_t align), from iteration i on.
RECURSIVE AlignInputFrom(_, _, _)
AlignInputFrom(strm, align, i) ==
    IF i >= align THEN [ok |-> TRUE, strm |-> strm]
    ELSE LET pos == Tell(strm)
         IN  IF pos < 0 THEN [ok |-> FALSE, strm |-> strm]
             ELSE IF pos % align = 0 THEN [ok |-> TRUE, strm |-> strm]
             ELSE AlignInputFrom(StreamReadByte(strm), align, i + 1)
AlignInput(strm, align) == AlignInputFrom(strm, align, 0)

(***************************************************************************)
(* Writing the compact body.  A write result is [ok, strm, failed_at]:     *)
(* failed_at holds the number of cells written when an AlignOutput step    *)
(* failed, and is empty when none failed.                                  *)
(***************************************************************************)
NoFailure == {}
WriteResult(ok, strm, failed_at) == [ok |-> ok, strm |-> strm, failed_at |-> failed_at]

\* The header CompactFstImpl::Write fills in; aligned is whether the file
\* version is kAlignedFileVersion.
Header(start, nstates, narcs, aligned) ==
    [start |-> start, nstates |-> nstates, narcs |-> narcs, aligned |-> aligned]

\* bool DefaultCompactStore::Write(std::ostream &strm, const FstWriteOptions &opts).
StoreWrite(c, d, strm, align) ==
    LET a1 == IF d.has_states /\ align THEN AlignOutput(strm, kArchAlignment)
              ELSE [ok |-> TRUE, strm |-> strm]
    IN  IF ~a1.ok THEN WriteResult(FALSE, a1.strm, {Len(a1.strm.toks)})
        ELSE LET s1 == IF d.has_states
                       THEN StreamWrite(a1.strm, [i \in 1..(d.nstates + 1) |->
                                                     StateCell(d.states[i])])
                       ELSE a1.strm
                 a2 == IF align THEN AlignOutput(s1, kArchAlignment)
                       ELSE [ok |-> TRUE, strm |-> s1]
             IN  IF ~a2.ok THEN WriteResult(FALSE, a2.strm, {Len(a2.strm.toks)})
                 ELSE LET s2 == StreamWrite(a2.strm, [i \in 1..d.ncompacts |->
                                                         ElementCell(c, d.compacts[i])])
                      IN  WriteResult(s2.good, s2, NoFailure)

\* The states array CompactFst::WriteFst writes for F, one entry at a time.
RECURSIVE FstStateCells(_, _, _)
FstStateCells(F, s, compacts) ==
    IF s >= NumStatesOf(F) THEN <<StateCell(compacts)>>
    ELSE <<StateCell(compacts)>>
           \o FstStateCells(F, s + 1,
                  compacts + (IF FinalOf(F, s) # WZero THEN 1 ELSE 0)
                           + Len(ArcsOf(F, s)))

\* The elements CompactFst::WriteFst writes for F in its second pass.
RECURSIVE FstElementCells(_, _, _)
FstElementCells(F, c, s) ==
    IF s >= NumStatesOf(F) THEN <<>>
    ELSE (IF FinalOf(F, s) # WZero
             THEN <<ElementCell(c, Compact(c, s, SuperFinal(FinalOf(F, s))))>>
             ELSE <<>>)
           \o [j \in 1..Len(ArcsOf(F, s)) |-> ElementCell(c, Compact(c, s, ArcsOf(F, s)[j]))]
           \o FstElementCells(F, c, s + 1)

\* bool CompactFst::WriteFst(const FST &fst, const Compactor &compactor,
\*                           std::ostream &strm, const FstWriteOptions &opts),
\* for an FST that is not itself a CompactFst.
WriteFst(F, c, strm, align) ==
    IF ~Compatible(c, F) THEN WriteResult(FALSE, strm, NoFailure)
    ELSE LET a1 == IF Size(c) = -1 /\ align THEN AlignOutput(strm, kArchAlignment)
                   ELSE [ok |-> TRUE, strm |-> strm]
         IN  IF ~a1.ok THEN WriteResult(FALSE, a1.strm, {Len(a1.strm.toks)})
             ELSE LET s1 == IF Size(c) = -1
                            THEN StreamWrite(a1.strm, FstStateCells(F, 0, 0))
                            ELSE a1.strm
                      a2 == IF align THEN AlignOutput(s1, kArchAlignment)
                            ELSE [ok |-> TRUE, strm |-> s1]
                      s2 == StreamWrite(a2.strm, FstElementCells(F, c, 0))
                  IN  WriteResult(s2.good, s2,
                                  IF a2.ok THEN NoFailure ELSE {Len(a2.strm.toks)})

(***************************************************************************)
(* Reading the compact body.                                               *)
(***************************************************************************)
NullRegion == [null |-> TRUE, toks |-> <<>>]

\* MappedFile::Map(istrm, memorymap, source, size).
MappedFileMap(strm, memorymap, size) == [region |-> NullRegion, strm |-> strm]

\* The leading cells of toks that make up size bytes.
RECURSIVE TakeBytes(_, _)
TakeBytes(toks, size) ==
    IF size <= 0 \/ toks = <<>> THEN <<>>
    ELSE <<Head(toks)>> \o TakeBytes(Tail(toks), size - Head(toks).bytes)

\* A mapped region as the specification describes it: size bytes of the
\* stream from its position on, read or mapped; a short stream fails.
RegionMap(strm, memorymap, size) ==
    LET got == TakeBytes(strm.toks, size)
    IN  IF CellBytes(got) # size
        THEN [region |-> NullRegion, strm |-> [strm EXCEPT !.good = FALSE]]
        ELSE [region |-> [null |-> FALSE, toks |-> got],
              strm |-> [strm EXCEPT !.pos = @ + size,
                                    !.toks = SubSeq(@, Len(got) + 1, Len(@))]]

NullStore == [EmptyStore EXCEPT !.error = TRUE]
ReadResult(null, d, strm, requests) ==
    [null |-> null, data |-> d, strm |-> strm, requests |-> requests]

RegionValues(region) == [i \in 1..Len(region.toks) |-> region.toks[i].val[1]]

\* The mapping function DefaultCompactStore::Read calls: the one of
\* mapped-file.cc, or MappedFile::Map as documented.
Map(documented, strm, memorymap, size) ==
    IF documented THEN RegionMap(strm, memorymap, size)
    ELSE MappedFileMap(strm, memorymap, size)

\* DefaultCompactStore::Read(strm, opts, hdr, compactor); requests lists the
\* byte counts asked of Map.
StoreRead(c, hdr, strm, memorymap, documented) ==
    LET d0 == [EmptyStore EXCEPT !.start = hdr.start, !.nstates = hdr.nstates,
                                 !.narcs = hdr.narcs]
        a1 == IF Size(c) = -1 /\ hdr.aligned THEN AlignInput(strm, kArchAlignment)
              ELSE [ok |-> TRUE, strm |-> strm]
        b1 == (d0.nstates + 1) * SizeofUnsigned
        m1 == IF Size(c) = -1 THEN Map(documented, a1.strm, memorymap, b1)
              ELSE [region |-> NullRegion, strm |-> a1.strm]
    IN  IF ~a1.ok THEN ReadResult(TRUE, NullStore, a1.strm, <<>>)
        ELSE IF Size(c) = -1 /\ (~m1.strm.good \/ m1.region.null)
        THEN ReadResult(TRUE, NullStore, m1.strm, <<b1>>)
        ELSE LET d1 == IF Size(c) = -1
                       THEN [d0 EXCEPT !.has_states = TRUE,
                                       !.states = RegionValues(m1.region)]
                       ELSE d0
                 ncompacts == IF Size(c) = -1 THEN d1.states[d1.nstates + 1]
                              ELSE d1.nstates * Size(c)
                 a2 == IF hdr.aligned THEN AlignInput(m1.strm, kArchAlignment)
                       ELSE [ok |-> TRUE, strm |-> m1.strm]
                 b2 == ncompacts * SizeofElement(c)
                 m2 == Map(documented, a2.strm, memorymap, b2)
                 reqs == IF Size(c) = -1 THEN <<b1, b2>> ELSE <<b2>>
             IN  IF ~a2.ok
                 THEN ReadResult(TRUE, NullStore, a2.strm,
                                 IF Size(c) = -1 THEN <<b1>> ELSE <<>>)
                 ELSE IF ~m2.strm.good \/ m2.region.null
                 THEN ReadResult(TRUE, NullStore, m2.strm, reqs)
                 ELSE ReadResult(FALSE,
                                 [d1 EXCEPT !.ncompacts = ncompacts,
                                            !.compacts = RegionValues(m2.region)],
                                 m2.strm, reqs)

(***************************************************************************)
(* State: one CompactFst object (its compactor, store and properties), the *)
(* input it was constructed from, and one arc iterator over it.            *)
(***************************************************************************)
VARIABLES
    phase,      \* "none" before construction, "built" after
    compactor,  \* the compactor of the CompactFst
    src,        \* the constructor's input: [kind, fst, elems]
    data,       \* the DefaultCompactStore data_ points to
    props,      \* the properties of the CompactFst
    aiter,      \* the ArcIterator<CompactFst>
    io,         \* a Write of the FST to a stream and a Read of what was written
    al,         \* a stream being aligned by AlignOutput and AlignInput
    cp,         \* a CompactFstImpl copied from the present one
    ew,         \* an ExpectationWeight operation and its result
    rd,         \* a CompositeWeightReader and its stream
    far,        \* a FAR operation: archive, arguments and what was written
    tool,       \* a tool entry point and its exit code
    pot,        \* a WritePotentials call and its return value
    cache,      \* the cache of the CompactFstImpl and its last handler's calls
    narrow      \* a store index built over a narrower Unsigned type

\* The variables outside the CompactFst and its streams.
ext == <<cp, ew, rd, far, tool, pot, cache, narrow>>

vars == <<phase, compactor, src, data, props, aiter, io, al, ext>>

\* The CompactFst object and its input.
fstVars == <<phase, compactor, src, data, props>>

NoFst == [start |-> kNoStateId, final |-> <<>>, arcs |-> <<>>]
NoSource == [kind |-> "none", fst |-> NoFst, elems |-> <<>>]
FstSource(F) == [kind |-> "fst", fst |-> F, elems |-> <<>>]
SharedSource(F) == [kind |-> "shared", fst |-> F, elems |-> <<>>]
RangeSource(r) == [kind |-> "range", fst |-> NoFst, elems |-> r]

IdleIo ==
    [phase |-> "idle", via |-> "none", p0 |-> 0,
     hdr |-> Header(kNoStateId, 0, 0, FALSE),
     wres |-> WriteResult(FALSE, OutStream(0, FALSE), NoFailure),
     rres |-> ReadResult(TRUE, NullStore, InStream(0, FALSE, <<>>), <<>>)]
IdleAlign ==
    [phase |-> "idle", align |-> 1, p |-> 0, ok |-> FALSE,
     strm |-> OutStream(0, FALSE)]

\* No CompactFst constructed yet, no stream in use.
InitFst ==
    /\ phase = "none"
    /\ compactor = "string"
    /\ src = NoSource
    /\ data = EmptyStore
    /\ props = {}
    /\ aiter = NoIterator

\* Nothing copied, no weight operation, reader, FAR operation, tool or
\* potentials call made.
Idle == [phase |-> "idle"]

\* The cache of a newly constructed CompactFstImpl: no start state and no
\* state entry.  st maps each cached state to its entry
\* [has_final, final, arcs, has_arcs].
EmptyCache == [has_start |-> FALSE, start |-> kNoStateId, st |-> <<>>]

InitExt ==
    /\ cp = Idle
    /\ ew = Idle
    /\ rd = Idle
    /\ far = Idle
    /\ tool = Idle
    /\ pot = Idle
    /\ cache = EmptyCache
    /\ narrow = Idle

Init ==
    /\ InitFst
    /\ io = IdleIo
    /\ al = IdleAlign
    /\ InitExt

\* CompactFst(fst, compactor): builds the store from the FST.
ConstructFromFst ==
    /\ phase = "none"
    /\ \E c \in Compactors, F \in FstInputs :
         LET d == StoreFromFst(F, c)
         IN  /\ compactor' = c
             /\ src' = FstSource(F)
             /\ data' = d
             /\ props' = InitFromFstProperties(c, F, d)
    /\ phase' = "built"
    /\ UNCHANGED <<aiter, io, al, ext>>

\* CompactFst(fst, compactor, opts, data): a further CompactFst over the
\* already initialized store of the present one.
ConstructOverStore ==
    /\ phase = "built"
    /\ src.kind = "fst"
    /\ ~aiter.live
    /\ \E F \in {EmptyStringFst} :
         /\ src' = SharedSource(F)
         /\ props' = InitFromFstProperties(compactor, F, data)
    /\ UNCHANGED <<phase, compactor, data, aiter, io, al, ext>>

\* CompactFst(begin, end, compactor): builds the store from an element range.
ConstructFromRange ==
    /\ phase = "none"
    /\ \E c \in Compactors :
         \E r \in RangeInputs(c) :
           LET d == StoreFromRange(r, c)
           IN  /\ compactor' = c
               /\ src' = RangeSource(r)
               /\ data' = d
               /\ props' = InitFromRangeProperties(c, d)
    /\ phase' = "built"
    /\ UNCHANGED <<aiter, io, al, ext>>

\* ArcIterator<CompactFst>(fst, s) for a state s of the FST.
IterNew ==
    /\ phase = "built"
    /\ src.kind # "shared"
    /\ \E s \in 0..(ImplNumStates(props, data) - 1) :
         aiter' = NewArcIterator(compactor, data, s)
    /\ UNCHANGED <<fstVars, io, al, ext>>

\* const Arc &Value(): expands the element at the current position into arc_.
IterValueStep ==
    /\ aiter.live
    /\ ~IterDone(aiter)
    /\ aiter' = [aiter EXCEPT !.arc = IterValue(compactor, data, aiter),
                              !.valued = TRUE]
    /\ UNCHANGED <<fstVars, io, al, ext>>

\* void Next().
IterNext ==
    /\ aiter.live
    /\ ~IterDone(aiter)
    /\ aiter' = [aiter EXCEPT !.pos = @ + 1, !.valued = FALSE,
                              !.arc = SuperFinal(WZero)]
    /\ UNCHANGED <<fstVars, io, al, ext>>

\* void Reset().
IterReset ==
    /\ aiter.live
    /\ aiter' = [aiter EXCEPT !.pos = 0, !.valued = FALSE,
                              !.arc = SuperFinal(WZero)]
    /\ UNCHANGED <<fstVars, io, al, ext>>

\* void Seek(size_t pos), for a position of the state's arcs.
IterSeek ==
    /\ aiter.live
    /\ \E p \in 0..aiter.num_arcs :
         aiter' = [aiter EXCEPT !.pos = p, !.valued = FALSE,
                                !.arc = SuperFinal(WZero)]
    /\ UNCHANGED <<fstVars, io, al, ext>>

\* void SetFlags(uint32 f, uint32 m), for flags f and a mask m over an
\* arc value flag and kArcNoCache.
IterSetFlags ==
    /\ aiter.live
    /\ \E f \in SUBSET {"kArcILabelValue", "kArcNoCache"},
          m \in SUBSET {"kArcILabelValue", "kArcNoCache"} :
         aiter' = [aiter EXCEPT !.flags = SetFlags(aiter.flags, f, m)]
    /\ UNCHANGED <<fstVars, io, al, ext>>

\* The index a variable out-degree DefaultCompactStore<Element, Unsigned>
\* builds from an FST whose state s has degrees[s + 1] compact elements (its
\* arcs and its superfinal element), for an Unsigned of the given number of
\* bits: states_[s] = pos and states_[nstates_] = ncompacts_, each
\* converted to Unsigned; pos and ncompacts_ are size_t.
NarrowStoreIndex(degrees, bits) ==
    LET pos(s) == SumSeq(SubSeq(degrees, 1, s))
        ncompacts == SumSeq(degrees)
    IN  [nstates |-> Len(degrees), ncompacts |-> ncompacts,
         states |-> [i \in 1..(Len(degrees) + 1) |->
                        IF i <= Len(degrees) THEN pos(i - 1) % (2 ^ bits)
                        ELSE ncompacts % (2 ^ bits)],
         error |-> pos(Len(degrees)) # ncompacts]

\* CompactFst<Arc, Compactor, uint8>(fst, compactor) for a variable
\* out-degree compactor and an FST of one or two states.
ConstructNarrowStore ==
    /\ phase = "none"
    /\ \E n \in 1..MaxStates :
         \E degrees \in [1..n -> {0, 1, 255, 256}] :
           narrow' = [phase |-> "built", bits |-> 8, degrees |-> degrees,
                      data |-> NarrowStoreIndex(degrees, 8)]
    /\ phase' = "narrow"
    /\ UNCHANGED <<compactor, src, data, props, aiter, io, al, cp, ew, rd, far,
                   tool, pot, cache>>

Next ==
    \/ ConstructFromFst
    \/ ConstructNarrowStore
    \/ IterSetFlags
    \/ ConstructOverStore
    \/ ConstructFromRange
    \/ IterNew
    \/ IterValueStep
    \/ IterNext
    \/ IterReset
    \/ IterSeek

Spec == Init /\ [][Next]_vars

(***************************************************************************)
(* Writing and reading the CompactFst.                                     *)
(***************************************************************************)
\* Stream positions at which the compact body may start (after the header
\* and the compactor's parameters).
BodyOffsets == {0, 6}

\* CompactFst::Write(strm, opts) -> CompactFstImpl::Write: header, compactor
\* parameters, then DefaultCompactStore::Write.
WriteCompactFst ==
    /\ phase = "built"
    /\ io.phase = "idle"
    /\ "kError" \notin props
    /\ \E align \in BOOLEAN, tellable \in BOOLEAN, p0 \in BodyOffsets :
         io' = [io EXCEPT
                   !.phase = "written", !.via = "store", !.p0 = p0,
                   !.hdr = Header(data.start, data.nstates, data.narcs, align),
                   !.wres = StoreWrite(compactor, data, OutStream(p0, tellable), align)]
    /\ UNCHANGED <<fstVars, aiter, al, ext>>

\* CompactFst::WriteFst(fst, compactor, strm, opts) of the input FST.
WriteFstDirect ==
    /\ phase = "built"
    /\ io.phase = "idle"
    /\ src.kind = "fst"
    /\ \E align \in BOOLEAN, tellable \in BOOLEAN, p0 \in BodyOffsets :
         io' = [io EXCEPT
                   !.phase = "written", !.via = "fst", !.p0 = p0,
                   !.hdr = Header(src.fst.start, NumStatesOf(src.fst),
                                  NumArcsOf(src.fst), align),
                   !.wres = WriteFst(src.fst, compactor, OutStream(p0, tellable), align)]
    /\ UNCHANGED <<fstVars, aiter, al, ext>>

\* CompactFst::Read(strm, opts) -> CompactFstImpl::Read of the bytes written:
\* header, compactor, then DefaultCompactStore::Read.
ReadCompactFst ==
    /\ io.phase = "written"
    /\ io.wres.ok
    /\ \E memorymap \in BOOLEAN :
         io' = [io EXCEPT
                   !.phase = "read",
                   !.rres = StoreRead(compactor, io.hdr,
                                      InStream(io.p0, TRUE, io.wres.strm.toks),
                                      memorymap, FALSE)]
    /\ UNCHANGED <<fstVars, aiter, al, ext>>

NextIO ==
    \/ ConstructFromFst
    \/ ConstructFromRange
    \/ WriteCompactFst
    \/ WriteFstDirect
    \/ ReadCompactFst

SpecIO == Init /\ [][NextIO]_vars

(***************************************************************************)
(* Aligning a stream: AlignOutput at position p, then AlignInput at        *)
(* position p of the stream that was written.                              *)
(***************************************************************************)
\* Largest stream position at which alignment is tried.
MaxPos == 20
Aligns == {1, 2, 3, 4, 8, kArchAlignment}

InitAlign ==
    /\ InitFst
    /\ io = IdleIo
    /\ InitExt
    /\ \E p \in 0..MaxPos, a \in Aligns, tellable \in BOOLEAN :
         al = [phase |-> "start", align |-> a, p |-> p, ok |-> FALSE,
               strm |-> OutStream(p, tellable)]

\* AlignOutput(strm, align) on the output stream at position p.
DoAlignOutput ==
    /\ al.phase = "start"
    /\ LET r == AlignOutput(al.strm, al.align)
       IN  al' = [al EXCEPT !.phase = "out", !.ok = r.ok, !.strm = r.strm]
    /\ UNCHANGED <<fstVars, aiter, io, ext>>

\* AlignInput(strm, align) at position p of a stream over the bytes written
\* from p on, followed by the next section.
DoAlignInput ==
    /\ al.phase = "out"
    /\ al.ok
    /\ \E tellable \in BOOLEAN :
         LET r == AlignInput(InStream(al.p, tellable,
                                      al.strm.toks \o <<StateCell(0)>>), al.align)
         IN  al' = [al EXCEPT !.phase = "in", !.ok = r.ok, !.strm = r.strm]
    /\ UNCHANGED <<fstVars, aiter, io, ext>>

NextAlign ==
    \/ DoAlignOutput
    \/ DoAlignInput

SpecAlign == InitAlign /\ [][NextAlign]_vars

(***************************************************************************)
(* Observers used by the properties.                                       *)
(***************************************************************************)
\* The stored elements of state s: compacts_[begin, end) with begin and end
\* as CompactFstImpl::Expand and CountEpsilons compute them.
StateRange(c, d, s) ==
    LET begin == IF Size(c) = -1 THEN d.states[s + 1] ELSE s * Size(c)
        end == IF Size(c) = -1 THEN d.states[s + 2] ELSE (s + 1) * Size(c)
    IN  SubSeq(d.compacts, begin + 1, end)

\* The transitions the stored elements of state s expand to, in stored order.
StoredArcs(c, d, s) ==
    LET r == StateRange(c, d, s)
    IN  [j \in 1..Len(r) |-> Expand(c, s, r[j])]

IsProperArc(a) == a.ilabel # kNoLabel
ProperStoredArcs(c, d, s) == SelectSeq(StoredArcs(c, d, s), IsProperArc)

\* The arcs a fresh ArcIterator over state s yields until Done().
IteratedArcs(c, d, s) ==
    LET it == NewArcIterator(c, d, s)
    IN  [p \in 1..it.num_arcs |-> IterValue(c, d, [it EXCEPT !.pos = p - 1])]

\* Out-degree of state s of F, a non-Zero final weight counting as one.
OutDegree(F, s) == Len(ArcsOf(F, s)) + (IF FinalOf(F, s) # WZero THEN 1 ELSE 0)

C2_StatesPartition ==
    (phase = "built" /\ Size(compactor) = -1 /\ ~data.error) =>
        /\ data.has_states
        /\ Len(data.states) = data.nstates + 1
        /\ data.states[1] = 0
        /\ \A s \in 0..(data.nstates - 1) : data.states[s + 1] <= data.states[s + 2]
        /\ data.states[data.nstates + 1] = data.ncompacts
        /\ Len(data.compacts) = data.ncompacts

SuperFinalOnlyFirst(c, d, s) ==
    \A j \in 2..Len(StoredArcs(c, d, s)) : IsProperArc(StoredArcs(c, d, s)[j])
HasSuperFinal(c, d, s) ==
    \E j \in 1..Len(StoredArcs(c, d, s)) : ~IsProperArc(StoredArcs(c, d, s)[j])

C4_SuperFinalFirst ==
    (phase = "built" /\ ~data.error) =>
        \A s \in 0..(data.nstates - 1) :
            /\ SuperFinalOnlyFirst(compactor, data, s)
            /\ HasSuperFinal(compactor, data, s) <=> (ImplFinal(compactor, data, s) # WZero)

\* C4 as amended: a superfinal element occurs only first in the range of s
\* and is present whenever Final(s) != Zero; in a store built from an FST and
\* in a variable out-degree store it is present only then, while a fixed
\* out-degree store built from an element range keeps a superfinal element
\* of weight Zero as it was given.
C4_SuperFinalFirstAmended ==
    (phase = "built" /\ ~data.error) =>
        \A s \in 0..(data.nstates - 1) :
            /\ SuperFinalOnlyFirst(compactor, data, s)
            /\ (ImplFinal(compactor, data, s) # WZero) => HasSuperFinal(compactor, data, s)
            /\ (src.kind # "range" \/ Size(compactor) = -1) =>
                   (HasSuperFinal(compactor, data, s) =>
                        ImplFinal(compactor, data, s) # WZero)

\* A variable out-degree store built from a range that holds a superfinal
\* element of weight Zero and one of another weight, each followed by an arc.
C4_Witness ==
    /\ phase = "built" /\ src.kind = "range" /\ compactor = "acceptor" /\ ~data.error
    /\ Len(src.elems) = 3 /\ data.nstates = 2 /\ data.ncompacts = 2
    /\ ImplFinal(compactor, data, 0) = WZero
    /\ ImplFinal(compactor, data, 1) = WOther

(***************************************************************************)
(* C5: a String CompactFst built from an iterator range of n >= 0 labels   *)
(* whose last element is not the superfinal marker has n+1 states, start 0 *)
(* and n arcs: state i < n has the single arc (label_i, label_i, One, i+1) *)
(* and Final(i) = Zero, state n has no arcs and Final(n) = One; the empty  *)
(* range yields one state, start 0, Final(0) = One and no arcs.            *)
(***************************************************************************)
StringOfLabels(r) ==
    LET n == Len(r)
    IN  /\ ~data.error
        /\ "kError" \notin props
        /\ ImplNumStates(props, data) = n + 1
        /\ data.start = 0
        /\ data.narcs = n
        /\ \A i \in 0..(n - 1) :
               /\ ImplNumArcs(compactor, data, i) = 1
               /\ IteratedArcs(compactor, data, i) = <<Arc(r[i + 1], r[i + 1], WOne, i + 1)>>
               /\ ImplFinal(compactor, data, i) = WZero
        /\ ImplNumArcs(compactor, data, n) = 0
        /\ IteratedArcs(compactor, data, n) = <<>>
        /\ ImplFinal(compactor, data, n) = WOne

C5_StringFromLabels ==
    (/\ phase = "built" /\ src.kind = "range" /\ compactor = "string"
     /\ (Len(src.elems) = 0 \/ src.elems[Len(src.elems)] # kNoLabel))
        => StringOfLabels(src.elems)

\* C5 as amended: the same, for a range none of whose elements is the
\* superfinal marker.
C5_StringFromProperLabels ==
    (/\ phase = "built" /\ src.kind = "range" /\ compactor = "string"
     /\ \A i \in 1..Len(src.elems) : src.elems[i] # kNoLabel)
        => StringOfLabels(src.elems)

\* A String CompactFst built from three proper labels.
C5_Witness ==
    /\ phase = "built" /\ src.kind = "range" /\ compactor = "string"
    /\ src.elems = <<1, 2, 1>>
    /\ data.nstates = 4

(***************************************************************************)
(* C6: for every state s of a CompactFst, the specialised ArcIterator      *)
(* never yields a superfinal transition, yields exactly NumArcs(s) arcs    *)
(* before Done() becomes true, and yields them in the order in which the   *)
(* elements of s are stored; after Reset() or Seek(p) it continues from    *)
(* position 0 or p of that same order.                                     *)
(***************************************************************************)
C6_IteratorOrder ==
    (phase = "built" /\ aiter.live) =>
        LET stored == ProperStoredArcs(compactor, data, aiter.state)
        IN  /\ Len(stored) = ImplNumArcs(compactor, data, aiter.state)
            /\ IterDone(aiter) <=> (aiter.pos >= ImplNumArcs(compactor, data, aiter.state))
            /\ ~IterDone(aiter) =>
                   /\ IsProperArc(IterValue(compactor, data, aiter))
                   /\ IterValue(compactor, data, aiter) = stored[aiter.pos + 1]
            /\ aiter.valued =>
                   /\ IsProperArc(aiter.arc)
                   /\ aiter.arc = stored[aiter.pos + 1]

\* The iterator over a final state with two arcs has yielded the second one.
C6_Witness ==
    /\ phase = "built" /\ aiter.live /\ aiter.valued /\ aiter.pos = 1
    /\ Size(compactor) = -1
    /\ data.states[aiter.state + 2] - data.states[aiter.state + 1] = 3
    /\ aiter.num_arcs = 2

(***************************************************************************)
(* C7: for each standard compactor, writing a CompactFst with Write and    *)
(* reading the written bytes back with CompactFst::Read (memory mapping    *)
(* requested or not) returns a non-null FST whose start state, number of   *)
(* states, final weights and arcs equal those of the written FST.          *)
(***************************************************************************)
C7_WriteReadRoundTrip ==
    (io.phase = "read" /\ io.via = "store") =>
        /\ ~io.rres.null
        /\ io.rres.data.start = data.start
        /\ io.rres.data.nstates = data.nstates
        /\ \A s \in 0..(data.nstates - 1) :
               /\ ImplFinal(compactor, io.rres.data, s) = ImplFinal(compactor, data, s)
               /\ IteratedArcs(compactor, io.rres.data, s) = IteratedArcs(compactor, data, s)

(***************************************************************************)
(* C8: the compact body written by DefaultCompactStore::Write contains the *)
(* states array of (nstates + 1) Unsigned entries exactly when the         *)
(* compactor is variable out-degree, followed by ncompacts elements; this  *)
(* is exactly the section sequence and byte lengths DefaultCompactStore::  *)
(* Read expects for the same header and compactor, for every store,        *)
(* including a variable out-degree store built from an empty range.        *)
(***************************************************************************)
IsStateCell(t) == t.kind = "state"
IsElementCell(t) == t.kind = "element"
IsBodyCell(t) == t.kind # "pad"

C8_WriteMatchesRead ==
    (io.phase = "written" /\ io.via = "store" /\ io.wres.ok) =>
        LET body == SelectSeq(io.wres.strm.toks, IsBodyCell)
            nstatecells == IF Size(compactor) = -1 THEN data.nstates + 1 ELSE 0
            expected == StoreRead(compactor, io.hdr,
                                  InStream(io.p0, TRUE, io.wres.strm.toks),
                                  FALSE, TRUE)
        IN  /\ Len(body) = nstatecells + data.ncompacts
            /\ \A i \in 1..Len(body) :
                   IF i <= nstatecells THEN IsStateCell(body[i])
                   ELSE IsElementCell(body[i])
            /\ ~expected.null
            /\ expected.strm.toks = <<>>
            /\ expected.requests =
                   (IF Size(compactor) = -1
                       THEN <<CellBytes(SelectSeq(body, IsStateCell))>> ELSE <<>>)
                     \o <<CellBytes(SelectSeq(body, IsElementCell))>>

(***************************************************************************)
(* C9: AlignOutput called at stream position p writes exactly              *)
(* (-p) mod align NUL bytes and returns true, and AlignInput called at     *)
(* stream position p consumes exactly (-p) mod align bytes and returns     *)
(* true; both leave the position congruent to 0 modulo align, so a writer  *)
(* and a reader that reach a section boundary at the same offset continue  *)
(* at the same offset.                                                     *)
(***************************************************************************)
Padding(p, align) == (align - (p % align)) % align

C9_AlignPositions ==
    /\ (al.phase = "out" /\ al.strm.tellable) =>
           /\ al.ok
           /\ al.strm.toks = [i \in 1..Padding(al.p, al.align) |-> PadCell]
           /\ al.strm.pos = al.p + Padding(al.p, al.align)
           /\ al.strm.pos % al.align = 0
    /\ (al.phase = "in" /\ al.strm.tellable) =>
           /\ al.ok
           /\ al.strm.toks = <<StateCell(0)>>
           /\ al.strm.pos = al.p + Padding(al.p, al.align)
           /\ al.strm.pos % al.align = 0

\* The reader has consumed the 15 padding bytes the writer wrote at position 17.
C9_Witness ==
    /\ al.phase = "in" /\ al.ok /\ al.strm.tellable
    /\ al.align = kArchAlignment /\ al.p = kArchAlignment + 1
    /\ al.strm.pos = 2 * kArchAlignment

(***************************************************************************)
(* C10: every compact write path (DefaultCompactStore::Write and           *)
(* CompactFst::WriteFst) returns false whenever one of its AlignOutput     *)
(* steps fails because the stream position cannot be determined, and       *)
(* writes no body section after the failed alignment.                      *)
(***************************************************************************)
C10_AlignFailureFailsWrite ==
    (io.phase = "written" /\ io.wres.failed_at # NoFailure) =>
        /\ ~io.wres.ok
        /\ io.wres.failed_at = {Len(io.wres.strm.toks)}

(***************************************************************************)
(* SetCompactElements and copies of the implementation.                    *)
(***************************************************************************)
SetSource(r) == [kind |-> "set", fst |-> NoFst, elems |-> r]

\* SetCompactElements assigning the properties afresh.
SetCompactElementsPropertiesAfresh(c, p, d) ==
    (kStaticProperties \cup CompactorProperties(c))
      \cup (IF d.error THEN {"kError"} ELSE {})

\* The properties CompactFstImpl::SetCompactElements(begin, end) leaves on
\* an FST whose properties were p; d is the store built from the range.
SetCompactElementsProperties(c, p, d) ==
    LET p1 == SetProperties(p, kStaticProperties \cup CompactorProperties(c))
    IN  IF d.error THEN SetPropertiesMask(p1, {"kError"}, {"kError"}) ELSE p1

\* CompactFst::SetCompactElements(begin, end).
SetCompactElements ==
    /\ phase = "built"
    /\ ~aiter.live
    /\ cp.phase = "idle"
    /\ \E r \in RangeInputs(compactor) :
         LET d == StoreFromRange(r, compactor)
         IN  /\ src' = SetSource(r)
             /\ data' = d
             /\ props' = SetCompactElementsProperties(compactor, props, d)
    /\ UNCHANGED <<phase, compactor, aiter, io, al, ext>>

\* The objects an implementation points to.  compactor_ and data_ are
\* shared pointers: each is null or names an object.
NullRef == "null"
ImplOf(ph, c, d, p) ==
    [compactor_ref |-> IF ph = "none" THEN NullRef ELSE "compactor#0",
     compactor |-> c,
     data_ref |-> IF ph = "none" THEN NullRef ELSE "store#0",
     data |-> d,
     props |-> p]

\* A copy constructor that duplicates the store as well.
CopyImplDuplicatingStore(impl) ==
    [impl EXCEPT
        !.compactor_ref = IF impl.compactor_ref = NullRef THEN NullRef
                          ELSE "compactor#1",
        !.data_ref = IF impl.data_ref = NullRef THEN NullRef ELSE "store#1"]

\* CompactFstImpl(const CompactFstImpl &impl): the copy's members.
CopyImpl(impl) ==
    [compactor_ref |-> IF impl.compactor_ref = NullRef THEN NullRef
                       ELSE "compactor#1",
     compactor |-> impl.compactor,
     data_ref |-> impl.data_ref,
     data |-> impl.data,
     props |-> SetProperties(impl.props, impl.props)]

\* Copying the implementation of the present CompactFst.
CopyCompactFstImpl ==
    /\ cp.phase = "idle"
    /\ LET impl == ImplOf(phase, compactor, data, props)
       IN  cp' = [phase |-> "copied", orig |-> impl, copy |-> CopyImpl(impl)]
    /\ UNCHANGED <<fstVars, aiter, io, al, cache, narrow, ew, rd, far, tool, pot>>

NextErr ==
    \/ ConstructFromFst
    \/ ConstructFromRange
    \/ SetCompactElements
    \/ CopyCompactFstImpl

SpecErr == Init /\ [][NextErr]_vars

C12_CopySharesBoth ==
    (cp.phase = "copied") =>
        /\ cp.copy.compactor_ref = cp.orig.compactor_ref
        /\ cp.copy.data_ref = cp.orig.data_ref

\* C12 as amended: the copy refers to the same CompactStore object as the
\* original and to a Compactor object of its own, copy-constructed from the
\* original's; a null compactor or store pointer is copied as null.
C12_CopySharesStore ==
    (cp.phase = "copied") =>
        /\ cp.copy.data_ref = cp.orig.data_ref
        /\ cp.copy.data = cp.orig.data
        /\ cp.copy.compactor = cp.orig.compactor
        /\ IF cp.orig.compactor_ref = NullRef
           THEN cp.copy.compactor_ref = NullRef
           ELSE cp.copy.compactor_ref \notin {NullRef, cp.orig.compactor_ref}

\* A copy of a CompactFst that has a compactor and a non-empty store.
C12_Witness ==
    /\ cp.phase = "copied" /\ phase = "built"
    /\ cp.orig.compactor_ref # NullRef
    /\ cp.orig.data_ref # NullRef
    /\ cp.copy.data.ncompacts > 0

(***************************************************************************)
(* ExpectationWeight<W1, W2>.  W1 and W2 are template parameters; they are *)
(* instantiated here with one semiring that is not commutative: the upper  *)
(* triangular 2 x 2 Boolean matrices, a matrix being the set of its cells  *)
(* that hold 1, Plus the entrywise "or" and Times the matrix product.      *)
(***************************************************************************)
Cells == {<<1, 1>>, <<1, 2>>, <<2, 2>>}
W1Zero == {}
W1One == {<<1, 1>>, <<2, 2>>}
W1NoWeight == {<<2, 1>>}
W1Plus(a, b) == a \cup b
W1Times(a, b) ==
    {c \in Cells : \E j \in {1, 2} : <<c[1], j>> \in a /\ <<j, c[2]>> \in b}

\* PairWeight<W1, W2>: a weight is <<Value1(), Value2()>>.
EWMember(w) == w[1] \subseteq Cells /\ w[2] \subseteq Cells

\* ExpectationWeight::Zero(), One(), NoWeight().
EWZero == <<W1Zero, W1Zero>>
\* One with One in both components.
EWOneBoth == <<W1One, W1One>>
EWOne == <<W1One, W1Zero>>
EWNoWeight == <<W1NoWeight, W1NoWeight>>

\* Plus(w1, w2).
EWPlus(w1, w2) == <<W1Plus(w1[1], w2[1]), W1Plus(w1[2], w2[2])>>

\* Times with the second product taken as Value1(w2) * Value2(w1).
EWTimesSwapped(w1, w2) ==
    <<W1Times(w1[1], w2[1]),
            W1Plus(W1Times(w1[1], w2[2]), W1Times(w2[1], w1[2]))>>

\* Times(w1, w2).
EWTimes(w1, w2) ==
    <<W1Times(w1[1], w2[1]),
            W1Plus(W1Times(w1[1], w2[2]), W1Times(w1[2], w2[1]))>>

\* FSTERROR(): with fst_error_fatal the message is fatal and the process
\* ends; otherwise it is logged and execution goes on.
FstErrorReturns(fst_error_fatal) == ~fst_error_fatal

\* Divide returning Zero.
EWDivideZero(w1, w2, typ, fst_error_fatal) ==
    [returned |-> FstErrorReturns(fst_error_fatal), value |-> EWZero]

\* Divide(w1, w2, typ): whether it returns, and the value it returns.
EWDivide(w1, w2, typ, fst_error_fatal) ==
    [returned |-> FstErrorReturns(fst_error_fatal), value |-> EWNoWeight]

EWOperands == ((SUBSET Cells) \X (SUBSET Cells)) \cup {EWNoWeight}

DoTimes ==
    /\ ew.phase = "idle"
    /\ \E x \in EWOperands, y \in EWOperands :
         ew' = [phase |-> "times", x |-> x, y |-> y, result |-> EWTimes(x, y)]
    /\ UNCHANGED <<fstVars, aiter, io, al, cache, narrow, cp, rd, far, tool, pot>>

DoPlus ==
    /\ ew.phase = "idle"
    /\ \E x \in EWOperands, y \in EWOperands :
         ew' = [phase |-> "plus", x |-> x, y |-> y, result |-> EWPlus(x, y)]
    /\ UNCHANGED <<fstVars, aiter, io, al, cache, narrow, cp, rd, far, tool, pot>>

DoDivide ==
    /\ ew.phase = "idle"
    /\ \E x \in EWOperands, y \in EWOperands, typ \in {"DIVIDE_LEFT", "DIVIDE_RIGHT", "DIVIDE_ANY"},
          fatal \in BOOLEAN :
         ew' = [phase |-> "divide", x |-> x, y |-> y, typ |-> typ,
                fst_error_fatal |-> fatal,
                result |-> EWDivide(x, y, typ, fatal)]
    /\ UNCHANGED <<fstVars, aiter, io, al, cache, narrow, cp, rd, far, tool, pot>>

NextWeight ==
    \/ DoTimes
    \/ DoPlus
    \/ DoDivide

SpecWeight == Init /\ [][NextWeight]_vars

C14_IdentityAndAnnihilator ==
    /\ (ew.phase = "times" /\ EWMember(ew.x) /\ EWMember(ew.y)) =>
           /\ (ew.y = EWOne) => (ew.result = ew.x)
           /\ (ew.x = EWOne) => (ew.result = ew.y)
           /\ (ew.y = EWZero \/ ew.x = EWZero) => (ew.result = EWZero)
    /\ (ew.phase = "plus" /\ EWMember(ew.x) /\ EWMember(ew.y)) =>
           /\ (ew.y = EWZero) => (ew.result = ew.x)
           /\ (ew.x = EWZero) => (ew.result = ew.y)

\* A weight with a non-Zero second component has been multiplied by One.
C14_Witness ==
    /\ ew.phase = "times" /\ ew.x = EWOne
    /\ EWMember(ew.y) /\ ew.y[2] # W1Zero /\ ew.y[1] # W1One
    /\ ew.result = ew.y

(***************************************************************************)
(* C15: Divide on two ExpectationWeight values, for every divide side and  *)
(* every pair of operands, returns the NoWeight value                      *)
(* (W1::NoWeight, W2::NoWeight), which is not a Member.                    *)
(***************************************************************************)
C15_DivideReturnsNoWeight ==
    (ew.phase = "divide") =>
        /\ ew.result.returned
        /\ ew.result.value = EWNoWeight
        /\ ~EWMember(ew.result.value)

\* C15 as amended: with fst_error_fatal false Divide returns NoWeight, which
\* is not a Member; with fst_error_fatal true (the default) the error it
\* reports ends the process and Divide does not return.
C15_DivideNoWeightUnlessFatal ==
    (ew.phase = "divide") =>
        IF ew.fst_error_fatal
        THEN ~ew.result.returned
        ELSE /\ ew.result.returned
             /\ ew.result.value = EWNoWeight
             /\ ~EWMember(ew.result.value)

\* A right division of two member weights with errors not fatal.
C15_Witness ==
    /\ ew.phase = "divide" /\ ~ew.fst_error_fatal /\ ew.typ = "DIVIDE_RIGHT"
    /\ EWMember(ew.x) /\ EWMember(ew.y) /\ ew.y # EWZero
    /\ ew.result.returned

(***************************************************************************)
(* CompositeWeightReader (weight.cc).  The input stream is its text, the   *)
(* number of characters already extracted and its state bits; get() on a   *)
(* stream that is not good extracts nothing, sets failbit and gives EOF,   *)
(* and at the end of the text it sets eofbit and failbit and gives EOF.    *)
(***************************************************************************)
MaxText == 3
Chars == {" ", "(", "a"}
Texts == UNION {[1..n -> Chars] : n \in 0..MaxText}

Get(strm) ==
    IF strm.state # {}
    THEN [c |-> "EOF", strm |-> [strm EXCEPT !.state = @ \cup {"fail"}]]
    ELSE IF strm.pos >= Len(strm.text)
         THEN [c |-> "EOF", strm |-> [strm EXCEPT !.state = {"eof", "fail"}]]
         ELSE [c |-> strm.text[strm.pos + 1],
               strm |-> [strm EXCEPT !.pos = @ + 1]]

\* do { c_ = istrm_.get(); } while (std::isspace(c_));
RECURSIVE SkipSpace(_)
SkipSpace(strm) ==
    LET g == Get(strm) IN IF g.c = " " THEN SkipSpace(g.strm) ELSE g

\* The constructor, from the two flags; istrm_.clear(badbit) makes badbit
\* the whole state.
CompositeWeightReader(text, separator, parentheses, fatal) ==
    LET r == [phase |-> "reading", strm |-> [text |-> text, pos |-> 0, state |-> {}],
              c |-> "NUL", has_parens |-> FALSE, depth |-> 0,
              open_paren |-> "NUL", close_paren |-> "NUL",
              fst_error_fatal |-> fatal, called |-> FALSE,
              pre |-> [pos |-> 0, state |-> {}, depth |-> 0]]
        bad == IF FstErrorReturns(fatal)
               THEN [r EXCEPT !.strm.state = {"bad"}]
               ELSE [r EXCEPT !.phase = "exited"]
    IN  IF Len(separator) # 1 THEN bad
        ELSE IF parentheses # <<>>
             THEN IF Len(parentheses) # 2 THEN bad
                  ELSE [r EXCEPT !.has_parens = TRUE,
                                 !.open_paren = parentheses[1],
                                 !.close_paren = parentheses[2]]
             ELSE r

\* ReadBegin raising the depth before it looks for the open parenthesis.
ReadBeginDepthFirst(r) ==
    LET g == SkipSpace(r.strm)
        r1 == [r EXCEPT !.strm = g.strm, !.c = g.c, !.depth = @ + 1]
    IN  IF r.has_parens
        THEN IF g.c # r.open_paren
             THEN IF FstErrorReturns(r.fst_error_fatal)
                  THEN [r1 EXCEPT !.strm.state = {"bad"}]
                  ELSE [r1 EXCEPT !.phase = "exited"]
             ELSE LET h == Get(g.strm)
                  IN  [r1 EXCEPT !.strm = h.strm, !.c = h.c]
        ELSE [r1 EXCEPT !.depth = r.depth]

\* CompositeWeightReader::ReadBegin.
ReadBegin(r) ==
    LET g == SkipSpace(r.strm)
        r1 == [r EXCEPT !.strm = g.strm, !.c = g.c]
    IN  IF r.has_parens
        THEN IF g.c # r.open_paren
             THEN IF FstErrorReturns(r.fst_error_fatal)
                  THEN [r1 EXCEPT !.strm.state = {"bad"}]
                  ELSE [r1 EXCEPT !.phase = "exited"]
             ELSE LET h == Get(g.strm)
                  IN  [r1 EXCEPT !.depth = @ + 1, !.strm = h.strm, !.c = h.c]
        ELSE r1

NewReader ==
    /\ rd.phase = "idle"
    /\ \E text \in Texts, separator \in {<<",">>, <<",", ";">>},
          parentheses \in {<<>>, <<"(", ")">>, <<"(">>}, fatal \in BOOLEAN :
         rd' = CompositeWeightReader(text, separator, parentheses, fatal)
    /\ UNCHANGED <<fstVars, aiter, io, al, cache, narrow, cp, ew, far, tool, pot>>

DoReadBegin ==
    /\ rd.phase = "reading"
    /\ rd' = ReadBegin([rd EXCEPT !.called = TRUE,
                                  !.pre = [pos |-> rd.strm.pos,
                                           state |-> rd.strm.state,
                                           depth |-> rd.depth]])
    /\ UNCHANGED <<fstVars, aiter, io, al, cache, narrow, cp, ew, far, tool, pot>>

NextReader ==
    \/ NewReader
    \/ DoReadBegin

SpecReader == Init /\ [][NextReader]_vars

\* The characters of the text not yet extracted before the call, the
\* whitespace that leads them, and the character that follows it.
C16_Rest == SubSeq(rd.strm.text, rd.pre.pos + 1, Len(rd.strm.text))
C16_Lead ==
    IF \A i \in 1..Len(C16_Rest) : C16_Rest[i] = " " THEN Len(C16_Rest)
    ELSE (CHOOSE i \in 1..Len(C16_Rest) :
             /\ C16_Rest[i] # " "
             /\ \A j \in 1..(i - 1) : C16_Rest[j] = " ") - 1
C16_At(i) == IF i <= Len(C16_Rest) THEN C16_Rest[i] ELSE "EOF"
C16_Called == rd.phase # "idle" /\ rd.called /\ rd.pre.state = {}
C16_Success ==
    /\ rd.phase = "reading"
    /\ "bad" \notin rd.strm.state
    /\ rd.depth = rd.pre.depth + 1
    /\ rd.c = C16_At(C16_Lead + 2)
C16_NoBrackets ==
    /\ rd.phase = "reading"
    /\ "bad" \notin rd.strm.state
    /\ rd.depth = 0
    /\ rd.c = C16_At(C16_Lead + 1)

(***************************************************************************)
(* C16: ReadBegin consumes all leading whitespace; when brackets are       *)
(* configured it succeeds only if the next character is the open bracket,  *)
(* in which case it raises the bracket depth by exactly one and reads the  *)
(* following character, and otherwise it marks the stream bad and leaves   *)
(* the depth unchanged; when brackets are not configured it never fails    *)
(* and leaves the depth at 0.                                              *)
(***************************************************************************)
C16_ReadBeginAsStated ==
    C16_Called =>
        /\ rd.strm.pos >= rd.pre.pos + C16_Lead
        /\ IF rd.has_parens
           THEN IF C16_At(C16_Lead + 1) = rd.open_paren
                THEN C16_Success
                ELSE /\ rd.phase = "reading"
                     /\ "bad" \in rd.strm.state
                     /\ rd.depth = rd.pre.depth
           ELSE C16_NoBrackets

\* C16 as amended: the missing open bracket marks the stream bad only when
\* fst_error_fatal is false; when it is true the process ends there.
C16_ReadBeginUnlessFatal ==
    C16_Called =>
        /\ rd.strm.pos >= rd.pre.pos + C16_Lead
        /\ IF rd.has_parens
           THEN IF C16_At(C16_Lead + 1) = rd.open_paren
                THEN C16_Success
                ELSE IF rd.fst_error_fatal
                     THEN rd.phase = "exited"
                     ELSE /\ rd.phase = "reading"
                          /\ "bad" \in rd.strm.state
                          /\ rd.depth = rd.pre.depth
           ELSE C16_NoBrackets

\* ReadBegin has skipped whitespace, found the bracket and read the
\* character after it.
C16_Witness ==
    /\ C16_Called /\ rd.has_parens /\ rd.phase = "reading"
    /\ C16_Lead > 0 /\ rd.depth = 1 /\ rd.c = "a"

(***************************************************************************)
(* FST archives.  A key is a string, modelled as the sequence of its       *)
(* characters; an archive is the sequence of its keys in the order the     *)
(* reader visits them, each standing for the FST stored under it.          *)
(***************************************************************************)
MaxKeys == 3
KeyChars == {"-", "a", "b"}
Keys == UNION {[1..n -> KeyChars] : n \in {1, 2}}

\* operator< of std::string_view: lexicographic on the character codes.
KeyLess(x, y) ==
    LET code == [c \in KeyChars |->
                    CASE c = "-" -> 45 [] c = "a" -> 97 [] c = "b" -> 98]
        m == IF Len(x) < Len(y) THEN Len(x) ELSE Len(y)
    IN  \E i \in 1..(m + 1) :
           /\ \A j \in 1..(i - 1) : x[j] = y[j]
           /\ IF i > m THEN Len(x) < Len(y) ELSE code[x[i]] < code[y[i]]

\* The archives whose keys strictly increase.
Archives ==
    {a \in UNION {[1..n -> Keys] : n \in 0..MaxKeys} :
        \A i \in 1..(Len(a) - 1) : KeyLess(a[i], a[i + 1])}

\* SplitString(line, delim, omit_empty_strings); positions count from 0 as
\* in the code, and delim is the set of characters find_first_of looks for.
SplitString(line, delim, omit_empty_strings) ==
    LET RECURSIVE Loop(_, _)
        Loop(prev_pos, vec) ==
            IF prev_pos > Len(line) THEN vec
            ELSE LET hits == {i \in prev_pos..(Len(line) - 1) :
                                 \E d \in 1..Len(delim) : line[i + 1] = delim[d]}
                     pos == IF hits = {} THEN Len(line)
                            ELSE CHOOSE i \in hits : \A j \in hits : i <= j
                     piece == SubSeq(line, prev_pos + 1, pos)
                 IN  Loop(pos + 1,
                          IF ~omit_empty_strings \/ pos # prev_pos
                          THEN Append(vec, piece) ELSE vec)
    IN  Loop(0, <<>>)

\* FarReader::Find(key): the position of the entry with this key, 0 when
\* the archive has none.
Find(entries, key) ==
    IF \E p \in 1..Len(entries) : entries[p] = key
    THEN CHOOSE p \in 1..Len(entries) : entries[p] = key
    ELSE 0

\* FarWriteFst keeping only the file it wrote last.
FarWriteFstKeepLast(st, key, generate_sources, i) ==
    [st EXCEPT !.okey = key, !.nrep = 0,
               !.written = <<[key |-> key, i |-> i, nrep |-> 0,
                              path |-> <<key>>]>>]

\* FarWriteFst: st carries the files written so far with okey and nrep.
FarWriteFst(st, key, generate_sources, i) ==
    LET nrep == IF key = st.okey THEN st.nrep + 1 ELSE 0
    IN  [st EXCEPT !.okey = key, !.nrep = nrep,
                   !.written = Append(@, [key |-> key, i |-> i, nrep |-> nrep,
                                          path |-> IF generate_sources # 0
                                                   THEN <<i>>
                                                   ELSE IF nrep > 0
                                                        THEN <<key, nrep>>
                                                        ELSE <<key>>])]

\* FarExtract: the files written, and whether it stopped at an error.
FarExtract(entries, open_ok, generate_sources, keys, key_separator, range_delimiter) ==
    LET st0 == [written |-> <<>>, okey |-> <<>>, nrep |-> 0, failed |-> FALSE]
        key_vector == SplitString(keys, key_separator, TRUE)
        RECURSIVE Range(_, _, _, _)
        Range(pos, i, st, end_key) ==
            IF pos > Len(entries) \/ KeyLess(end_key, entries[pos])
            THEN <<i, st>>
            ELSE Range(pos + 1, i + 1,
                       FarWriteFst(st, entries[pos], generate_sources, i),
                       end_key)
        RECURSIVE ForKeys(_, _, _)
        ForKeys(k, i, st) ==
            IF k > Len(key_vector) THEN st
            ELSE LET key == key_vector[k]
                     range_vector == SplitString(key, range_delimiter, FALSE)
                 IN  IF Len(range_vector) = 1
                     THEN IF Find(entries, key) = 0
                          THEN [st EXCEPT !.failed = TRUE]
                          ELSE ForKeys(k + 1, i + 1,
                                       FarWriteFst(st, key, generate_sources, i))
                     ELSE IF Len(range_vector) = 2
                     THEN IF range_vector[1] = <<>> \/ range_vector[2] = <<>>
                          THEN [st EXCEPT !.failed = TRUE]
                          ELSE IF Find(entries, range_vector[1]) = 0
                          THEN [st EXCEPT !.failed = TRUE]
                          ELSE LET r == Range(Find(entries, range_vector[1]), i,
                                              st, range_vector[2])
                               IN  ForKeys(k + 1, r[1] + 1, r[2])
                     ELSE [st EXCEPT !.failed = TRUE]
        RECURSIVE All(_, _)
        All(i, st) ==
            IF i > Len(entries) THEN st
            ELSE All(i + 1, FarWriteFst(st, entries[i], generate_sources, i))
    IN  IF ~open_ok THEN [st0 EXCEPT !.failed = TRUE]
        ELSE IF keys # <<>> THEN ForKeys(1, 0, st0)
        ELSE All(1, st0)

\* farextract_main: the exit code and what FarExtract did.  header_ok says
\* whether LoadArcTypeFromFar could read the arc type of the first source.
farextract_main(entries, header_ok, open_ok, generate_filenames, keys) ==
    IF ~header_ok
    THEN [exit |-> 1, ran |-> FALSE, written |-> <<>>, failed |-> TRUE]
    ELSE LET r == FarExtract(entries, open_ok, generate_filenames, keys,
                             <<",">>, <<"-">>)
         IN  [exit |-> 0, ran |-> TRUE, written |-> r.written,
              failed |-> r.failed]

\* A run of farextract on an archive with no key specification, one key, a
\* list of two or three keys, or a range from a key b of the archive to
\* any e.
RunFarExtract ==
    /\ far.phase = "idle" /\ tool.phase = "idle" /\ pot.phase = "idle"
    /\ \E entries \in Archives, env \in {"ok", "no header", "no open"},
          generate_filenames \in {0, 1} :
         \E ks \in
              [kind : {"all"}, b : {<<>>}, e : {<<>>}, keys : {<<>>}]
              \cup {[kind |-> "key", b |-> k, e |-> <<>>, keys |-> k] :
                       k \in Keys}
              \cup {[kind |-> "list", b |-> <<k[1]>>, e |-> <<k[2]>>,
                     keys |-> <<k[1], ",", k[2]>>] : k \in KeyChars \X KeyChars}
              \cup {[kind |-> "list", b |-> <<k[1]>>, e |-> <<k[3]>>,
                     keys |-> <<k[1], ",", k[2], ",", k[3]>>] :
                       k \in {"a", "b"} \X {"a", "b"} \X {"a", "b"}}
              \cup {[kind |-> "range", b |-> entries[p[1]], e |-> p[2],
                     keys |-> entries[p[1]] \o <<"-">> \o p[2]] :
                       p \in (1..Len(entries)) \X (Keys \cup {<<>>})} :
            far' = [phase |-> "extracted", entries |-> entries, env |-> env,
                    generate_filenames |-> generate_filenames, spec |-> ks,
                    result |-> farextract_main(entries, env # "no header",
                                               env = "ok", generate_filenames,
                                               ks.keys)]
    /\ UNCHANGED <<fstVars, aiter, io, al, cache, narrow, cp, ew, rd, tool, pot>>

C17_Leq(x, y) == x = y \/ KeyLess(x, y)
C17_InRange(k) == C17_Leq(far.spec.b, k) /\ C17_Leq(k, far.spec.e)
C17_RangeExtracted ==
    /\ far.phase = "extracted" /\ far.spec.kind = "range" /\ far.env = "ok"
C17_Plain(k) == \A i \in 1..Len(k) : k[i] \notin {"-", ","}

GetFarTypeDefaultStlist(str) ==
    CASE str = "fst" -> "FST" [] str = "stlist" -> "STLIST"
      [] str = "sttable" -> "STTABLE" [] str = "default" -> "STLIST"
      [] OTHER -> "none"

\* script::GetFarType(str, &far_type); "none" stands for returning false.
GetFarType(str) ==
    CASE str = "fst" -> "FST" [] str = "stlist" -> "STLIST"
      [] str = "sttable" -> "STTABLE" [] str = "default" -> "DEFAULT"
      [] OTHER -> "none"

\* FarWriter::Add(key, fst): an STTABLE writer takes a key only if it is
\* greater than the last one and otherwise flags an error.
Add(w, key, type) ==
    IF /\ w.far_type = "STTABLE" /\ w.entries # <<>>
       /\ ~KeyLess(w.entries[Len(w.entries)].key, key)
    THEN [w EXCEPT !.error = TRUE]
    ELSE [w EXCEPT !.entries = Append(@, [key |-> key, type |-> type])]

\* FarConvert: whether it returned, whether it raised an error, and the
\* archive it wrote.  Convert gives no FST for an unregistered fst_type.
FarConvert(in, open_ok, create_ok, fst_type, far_type, fatal) ==
    LET none == [far_type |-> far_type, entries |-> <<>>, error |-> FALSE]
        Err(w) == [returned |-> FstErrorReturns(fatal), error |-> TRUE,
                   out |-> w]
        RECURSIVE Loop(_, _)
        Loop(i, w) ==
            IF i > Len(in.entries)
            THEN IF w.error THEN Err(w)
                 ELSE [returned |-> TRUE, error |-> FALSE, out |-> w]
            ELSE LET e == in.entries[i]
                 IN  IF fst_type = "" \/ e.type = fst_type
                     THEN Loop(i + 1, Add(w, e.key, e.type))
                     ELSE IF fst_type \notin {"vector", "compact"}
                          THEN Err(w)
                          ELSE Loop(i + 1, Add(w, e.key, fst_type))
    IN  IF ~open_ok THEN Err(none)
        ELSE IF ~create_ok THEN Err(none)
        ELSE Loop(1, none)

\* farconvert_main: the exit code and what FarConvert did.  A fatal error
\* ends the process with exit code 1.
farconvert_main(argc, far_type_flag, fst_type_flag, in, env, fatal) ==
    LET stop == [exit |-> 1, ran |-> FALSE, returned |-> FALSE,
                 error |-> TRUE, out |-> <<>>]
        far_type == IF GetFarType(far_type_flag) = "DEFAULT"
                    THEN GetFarType(in.far_type)
                    ELSE GetFarType(far_type_flag)
    IN  IF argc > 3 THEN stop
        ELSE IF GetFarType(far_type_flag) = "none" THEN stop
        ELSE IF GetFarType(far_type_flag) = "DEFAULT" /\ env = "no header"
        THEN stop
        ELSE IF far_type = "none" THEN stop
        ELSE IF env = "no header" THEN stop
        ELSE LET r == FarConvert(in, env # "no open", env # "no create",
                                 fst_type_flag, far_type, fatal)
             IN  [exit |-> IF r.returned THEN 0 ELSE 1, ran |-> TRUE,
                  returned |-> r.returned, error |-> r.error, out |-> r.out]

\* A run of farconvert on an STLIST in any order, an STTABLE in increasing
\* key order, or an FST archive with its one entry.
RunFarConvert ==
    /\ far.phase = "idle" /\ tool.phase = "idle" /\ pot.phase = "idle"
    /\ \E in \in
            LET entry == [key : {<<"a">>, <<"b">>}, type : {"vector", "compact"}]
                seqs == UNION {[1..n -> entry] : n \in 0..MaxKeys}
            IN  [far_type : {"stlist"}, entries : seqs]
                \cup [far_type : {"sttable"},
                      entries : {q \in seqs : \A i \in 1..(Len(q) - 1) :
                                    KeyLess(q[i].key, q[i + 1].key)}]
                \cup [far_type : {"fst"}, entries : {q \in seqs : Len(q) = 1}],
          argc \in {3, 4}, fatal \in BOOLEAN,
          far_type_flag \in {"default", "fst", "stlist", "sttable", "zip"},
          fst_type_flag \in {"", "vector", "compact", "nosuch"},
          env \in {"ok", "no header", "no open", "no create"} :
         /\ (far_type_flag = "fst") => (Len(in.entries) <= 1)
         /\ tool' = [phase |-> "converted", in |-> in, argc |-> argc,
                     far_type |-> far_type_flag, fst_type |-> fst_type_flag,
                     env |-> env, fst_error_fatal |-> fatal,
                     result |-> farconvert_main(argc, far_type_flag,
                                                fst_type_flag, in, env, fatal)]
    /\ UNCHANGED <<fstVars, aiter, io, al, cache, narrow, cp, ew, rd, far, pot>>

\* fstproject_main: the exit code.
fstproject_main(argc, read_ok, project_type, write_ok) ==
    IF argc > 3 THEN 1
    ELSE IF ~read_ok THEN 1
    ELSE IF project_type \notin {"input", "output"} THEN 1
    ELSE IF write_ok THEN 0 ELSE 1

RunFstProject ==
    /\ far.phase = "idle" /\ tool.phase = "idle" /\ pot.phase = "idle"
    /\ \E argc \in {3, 4}, read_ok \in BOOLEAN, write_ok \in BOOLEAN,
          project_type \in {"input", "output", "both"} :
         tool' = [phase |-> "projected", argc |-> argc, read_ok |-> read_ok,
                  project_type |-> project_type, write_ok |-> write_ok,
                  exit |-> fstproject_main(argc, read_ok, project_type,
                                           write_ok)]
    /\ UNCHANGED <<fstVars, aiter, io, al, cache, narrow, cp, ew, rd, far, pot>>

(***************************************************************************)
(* WritePotentials (text-io.cc).  fail_at is the set holding the line at   *)
(* which the stream fails, empty when it never does; a failed stream takes *)
(* no more output, and "!ostrm" is ostrm.fail().                           *)
(***************************************************************************)
MaxPotentials == 2

WritePotentials(filename, open_ok, potentials, fail_at) ==
    IF filename # "" /\ ~open_ok
    THEN [ret |-> FALSE, opened |-> FALSE, fail |-> TRUE, lines |-> <<>>]
    ELSE LET n == IF fail_at = {} THEN Len(potentials)
                  ELSE (CHOOSE k \in fail_at : TRUE) - 1
             fail == fail_at # {}
         IN  [ret |-> fail, opened |-> TRUE, fail |-> fail,
              lines |-> [s \in 1..n |-> <<s - 1, "\t", potentials[s], "\n">>]]

RunWritePotentials ==
    /\ far.phase = "idle" /\ tool.phase = "idle" /\ pot.phase = "idle"
    /\ \E filename \in {"", "out.txt"}, open_ok \in BOOLEAN,
          potentials \in UNION {[1..n -> Weights] : n \in 0..MaxPotentials} :
         \E fail_at \in {{}} \cup {{k} : k \in 1..Len(potentials)} :
            pot' = [phase |-> "written", filename |-> filename,
                    open_ok |-> open_ok, potentials |-> potentials,
                    fail_at |-> fail_at,
                    result |-> WritePotentials(filename, open_ok, potentials,
                                               fail_at)]
    /\ UNCHANGED <<fstVars, aiter, io, al, cache, narrow, cp, ew, rd, far, tool>>

\* ReadPotentials.  A line is the vector of its columns: none for a blank
\* line, a state number and a weight for a well-formed one.  The result is
\* whether the process went on, the value returned and the vector.
MaxLines == 3

ReadPotentials(lines, open_ok, fatal) ==
    LET RECURSIVE Loop(_, _)
        Loop(n, potentials) ==
            IF n > Len(lines)
            THEN [returned |-> TRUE, ret |-> TRUE, potentials |-> potentials]
            ELSE LET col == lines[n]
                 IN  IF Len(col) = 0 THEN Loop(n + 1, potentials)
                     ELSE IF Len(col) # 2
                     THEN [returned |-> FstErrorReturns(fatal), ret |-> FALSE,
                           potentials |-> potentials]
                     ELSE LET grown == potentials \o
                                  [i \in 1..(col[1] + 1 - Len(potentials)) |-> WZero]
                          IN  Loop(n + 1, [grown EXCEPT ![Len(grown)] = col[2]])
    IN  IF ~open_ok
        THEN [returned |-> TRUE, ret |-> FALSE, potentials |-> <<>>]
        ELSE Loop(1, <<>>)

RunReadPotentials ==
    /\ far.phase = "idle" /\ tool.phase = "idle" /\ pot.phase = "idle"
    /\ \E open_ok \in BOOLEAN, fatal \in BOOLEAN,
          lines \in UNION {[1..n -> {<<>>} \cup {<<st>> : st \in 0..MaxPotentials}
                                    \cup ((0..MaxPotentials) \X Weights)] :
                             n \in 0..MaxLines} :
         pot' = [phase |-> "read", lines |-> lines, open_ok |-> open_ok,
                 fst_error_fatal |-> fatal,
                 result |-> ReadPotentials(lines, open_ok, fatal)]
    /\ UNCHANGED <<fstVars, aiter, io, al, cache, narrow, cp, ew, rd, far, tool>>

NextTools ==
    \/ RunFarExtract
    \/ RunFarConvert
    \/ RunFstProject
    \/ RunWritePotentials
    \/ RunReadPotentials

SpecTools == Init /\ [][NextTools]_vars

(***************************************************************************)
(* C18: each tool entry point (farextract_main, farconvert_main,           *)
(* fstproject_main) returns exit code 1 whenever its operation fails       *)
(* (input cannot be opened, a requested key is not found, a range spec is  *)
(* illegal, an FST cannot be converted, or output cannot be written) and   *)
(* returns 0 only when the operation succeeded.                            *)
(***************************************************************************)
C18_ExitCodeReportsFailure ==
    /\ (far.phase = "extracted") =>
           (far.result.exit = IF far.result.failed THEN 1 ELSE 0)
    /\ (tool.phase = "converted") =>
           (tool.result.exit = IF tool.result.error THEN 1 ELSE 0)
    /\ (tool.phase = "projected") =>
           (tool.exit = IF tool.argc <= 3 /\ tool.read_ok /\ tool.write_ok
                           /\ tool.project_type \in {"input", "output"}
                        THEN 0 ELSE 1)

C20_ReturnsTrueIffWritten ==
    (pot.phase = "written") =>
        (pot.result.ret <=>
            /\ pot.result.opened
            /\ ~pot.result.fail
            /\ Len(pot.result.lines) = Len(pot.potentials))

\* The lines of the file that name state st, as positions in the file.
C21_Naming(st) ==
    {n \in 1..Len(pot.lines) : Len(pot.lines[n]) = 2 /\ pot.lines[n][1] = st}
C21_Named == {st \in 0..MaxPotentials : C21_Naming(st) # {}}

(***************************************************************************)
(* C21: after ReadPotentials succeeds on a file of 'state weight' lines,   *)
(* for every state s named in the file potentials[s] equals the weight of  *)
(* the last line naming s, every index below the largest named state that  *)
(* is not named holds Zero, and this holds for any order of the lines.     *)
(***************************************************************************)
C21_PotentialsByState ==
    (pot.phase = "read" /\ pot.result.returned /\ pot.result.ret) =>
        /\ \A st \in C21_Named :
              /\ st + 1 <= Len(pot.result.potentials)
              /\ LET last == CHOOSE n \in C21_Naming(st) :
                                 \A k \in C21_Naming(st) : k <= n
                 IN  pot.result.potentials[st + 1] = pot.lines[last][2]
        /\ \A i \in 1..Len(pot.result.potentials) :
              ((i - 1) \notin C21_Named) => (pot.result.potentials[i] = WZero)

(***************************************************************************)
(* C22: for every DefaultCompactStore built without error by either        *)
(* constructor, Start() is either kNoStateId or a state id in              *)
(* [0, NumStates()); in particular a store with zero states has            *)
(* Start() = kNoStateId.                                                   *)
(***************************************************************************)
C22_StartIsAState ==
    (phase = "built" /\ ~data.error) =>
        \/ data.start = kNoStateId
        \/ data.start \in 0..(data.nstates - 1)

(***************************************************************************)
(* The cache of CompactFstImpl.  Every handler below yields                *)
(* [cache, ret, log]: the cache it leaves, the value it returns and the    *)
(* cache calls it issued in order, each [op, s, complete] with complete    *)
(* the value of HasArcs(s) when the call was made.                         *)
(***************************************************************************)
\* The entry of state s, empty while s is not cached.
CacheState(ch, s) ==
    IF s \in DOMAIN ch.st THEN ch.st[s]
    ELSE [has_final |-> FALSE, final |-> WZero, arcs |-> <<>>, has_arcs |-> FALSE]

\* Expand(s) pushing the superfinal transition as an arc as well.
ExpandKeepingSuperFinal(ch, c, d, s) ==
    LET arcs == StoredArcs(c, d, s)
        Call(op, e) == [op |-> op, s |-> s, complete |-> e.has_arcs]
        RECURSIVE Loop(_, _, _)
        Loop(i, e, log) ==
            IF i > Len(arcs)
            THEN LET e1 == IF ~e.has_final
                           THEN [e EXCEPT !.has_final = TRUE, !.final = WZero] ELSE e
                     log1 == IF ~e.has_final THEN Append(log, Call("SetFinal", e)) ELSE log
                 IN  [entry |-> [e1 EXCEPT !.has_arcs = TRUE],
                      log |-> Append(log1, Call("SetArcs", e1))]
            ELSE IF arcs[i].ilabel = kNoLabel
            THEN Loop(i + 1, [e EXCEPT !.has_final = TRUE, !.final = arcs[i].weight,
                                       !.arcs = Append(@, arcs[i])],
                      Append(log, Call("SetFinal", e)))
            ELSE Loop(i + 1, [e EXCEPT !.arcs = Append(@, arcs[i])],
                      Append(log, Call("PushArc", e)))
        r == Loop(1, CacheState(ch, s), <<Call("Expand", CacheState(ch, s))>>)
    IN  [cache |-> [ch EXCEPT !.st = [t \in (DOMAIN ch.st) \cup {s} |->
                                        IF t = s THEN r.entry ELSE ch.st[t]]],
         ret |-> 0, log |-> r.log]

\* CompactFstImpl::Expand(s): SetFinal for a superfinal element and PushArc
\* for every other element of the state's range, then SetFinal(s, Zero)
\* unless the final weight is cached, then SetArcs(s).
ImplExpand(ch, c, d, s) ==
    LET arcs == StoredArcs(c, d, s)
        Call(op, e) == [op |-> op, s |-> s, complete |-> e.has_arcs]
        RECURSIVE Loop(_, _, _)
        Loop(i, e, log) ==
            IF i > Len(arcs)
            THEN LET e1 == IF ~e.has_final
                           THEN [e EXCEPT !.has_final = TRUE, !.final = WZero] ELSE e
                     log1 == IF ~e.has_final THEN Append(log, Call("SetFinal", e)) ELSE log
                 IN  [entry |-> [e1 EXCEPT !.has_arcs = TRUE],
                      log |-> Append(log1, Call("SetArcs", e1))]
            ELSE IF arcs[i].ilabel = kNoLabel
            THEN Loop(i + 1, [e EXCEPT !.has_final = TRUE, !.final = arcs[i].weight],
                      Append(log, Call("SetFinal", e)))
            ELSE Loop(i + 1, [e EXCEPT !.arcs = Append(@, arcs[i])],
                      Append(log, Call("PushArc", e)))
        r == Loop(1, CacheState(ch, s), <<Call("Expand", CacheState(ch, s))>>)
    IN  [cache |-> [ch EXCEPT !.st = [t \in (DOMAIN ch.st) \cup {s} |->
                                        IF t = s THEN r.entry ELSE ch.st[t]]],
         ret |-> 0, log |-> r.log]

\* CompactFstImpl::Start(): the store's start state is cached by the first
\* call and read from the cache by the later ones.
ImplStart(ch, d) ==
    IF ~ch.has_start
    THEN [cache |-> [ch EXCEPT !.has_start = TRUE, !.start = d.start],
          ret |-> d.start,
          log |-> <<[op |-> "SetStart", s |-> d.start, complete |-> FALSE]>>]
    ELSE [cache |-> ch, ret |-> ch.start, log |-> <<>>]

\* CompactFstImpl::Final(s): the cached final weight if there is one.
Final(ch, c, d, s) ==
    IF CacheState(ch, s).has_final THEN CacheState(ch, s).final ELSE ImplFinal(c, d, s)

\* CompactFstImpl::NumArcs(s): the number of cached arcs if the arcs are cached.
NumArcs(ch, c, d, s) ==
    IF CacheState(ch, s).has_arcs THEN Len(CacheState(ch, s).arcs) ELSE ImplNumArcs(c, d, s)

\* InitArcIterator expanding the state whether or not its arcs are cached.
InitArcIteratorAlwaysExpanding(ch, c, d, s) == ImplExpand(ch, c, d, s)

\* CompactFstImpl::InitArcIterator(s, data): expands s unless its arcs are
\* cached; the iterator then runs over the cached arcs.
InitArcIterator(ch, c, d, s) ==
    IF ~CacheState(ch, s).has_arcs THEN ImplExpand(ch, c, d, s)
    ELSE [cache |-> ch, ret |-> 0, log |-> <<>>]

\* CountEpsilons counting the superfinal element as an epsilon.
CountEpsilonsCountingFinal(c, d, s, output_epsilons) ==
    LET arcs == StoredArcs(c, d, s)
        RECURSIVE Loop(_, _)
        Loop(i, num_eps) ==
            IF i > Len(arcs) THEN num_eps
            ELSE LET label == IF output_epsilons THEN arcs[i].olabel ELSE arcs[i].ilabel
                 IN  IF label > 0 THEN num_eps ELSE Loop(i + 1, num_eps + 1)
    IN  Loop(1, 0)

\* CompactFstImpl::CountEpsilons(s, output_epsilons): counts over the stored
\* elements, skipping the superfinal one and stopping at the first
\* positive label.
CountEpsilons(c, d, s, output_epsilons) ==
    LET arcs == StoredArcs(c, d, s)
        RECURSIVE Loop(_, _)
        Loop(i, num_eps) ==
            IF i > Len(arcs) THEN num_eps
            ELSE LET label == IF output_epsilons THEN arcs[i].olabel ELSE arcs[i].ilabel
                 IN  IF label = kNoLabel THEN Loop(i + 1, num_eps)
                     ELSE IF label > 0 THEN num_eps
                     ELSE Loop(i + 1, num_eps + 1)
    IN  Loop(1, 0)

\* CompactFstImpl::NumInputEpsilons(s) and NumOutputEpsilons(s)
\* (output_epsilons): expands s unless the arcs are cached or the FST
\* asserts the labels sorted, answers from the cache if the arcs are cached
\* and by CountEpsilons otherwise.
NumEpsilons(ch, c, d, p, s, output_epsilons) ==
    LET sorted == IF output_epsilons THEN "kOLabelSorted" \in p ELSE "kILabelSorted" \in p
        x == IF ~CacheState(ch, s).has_arcs /\ ~sorted THEN ImplExpand(ch, c, d, s)
             ELSE [cache |-> ch, ret |-> 0, log |-> <<>>]
        e == CacheState(x.cache, s)
    IN  [x EXCEPT !.ret =
            IF e.has_arcs
            THEN Cardinality({j \in 1..Len(e.arcs) :
                     (IF output_epsilons THEN e.arcs[j].olabel ELSE e.arcs[j].ilabel) = 0})
            ELSE CountEpsilons(c, d, s, output_epsilons)]

\* The number of states the cache holds before the garbage collector has
\* to evict one.
MaxCached == 1

\* Start() on the constructed CompactFst.
CacheStart ==
    /\ phase = "built"
    /\ cache' = ImplStart(cache, data).cache
    /\ UNCHANGED <<fstVars, aiter, io, al, cp, ew, rd, far, tool, pot, narrow>>

\* InitArcIterator(s, data) for a state s of the FST, while the cache has
\* room for the state.
CacheInitArcIterator ==
    /\ phase = "built"
    /\ \E s \in 0..(ImplNumStates(props, data) - 1) :
         LET r == InitArcIterator(cache, compactor, data, s)
         IN  /\ Cardinality(DOMAIN r.cache.st) <= MaxCached
             /\ cache' = r.cache
    /\ UNCHANGED <<fstVars, aiter, io, al, cp, ew, rd, far, tool, pot, narrow>>

\* NumInputEpsilons(s) or NumOutputEpsilons(s) for a state s of the FST,
\* while the cache has room for the state.
CacheNumEpsilons ==
    /\ phase = "built"
    /\ \E s \in 0..(ImplNumStates(props, data) - 1), output_epsilons \in BOOLEAN :
         LET r == NumEpsilons(cache, compactor, data, props, s, output_epsilons)
         IN  /\ Cardinality(DOMAIN r.cache.st) <= MaxCached
             /\ cache' = r.cache
    /\ UNCHANGED <<fstVars, aiter, io, al, cp, ew, rd, far, tool, pot, narrow>>

\* Garbage collection: the entry of a cached state that no iterator pins
\* is evicted.
CacheEvict ==
    /\ phase = "built"
    /\ \E s \in DOMAIN cache.st :
         cache' = [cache EXCEPT !.st = [t \in (DOMAIN cache.st) \ {s} |-> cache.st[t]]]
    /\ UNCHANGED <<fstVars, aiter, io, al, cp, ew, rd, far, tool, pot, narrow>>

NextCache ==
    \/ ConstructFromFst
    \/ ConstructFromRange
    \/ CacheStart
    \/ CacheInitArcIterator
    \/ CacheNumEpsilons
    \/ CacheEvict

SpecCache == Init /\ [][NextCache]_vars

NextCacheSet ==
    \/ ConstructFromRange
    \/ CacheStart
    \/ CacheInitArcIterator
    \/ SetCompactElements

SpecCacheSet == Init /\ [][NextCacheSet]_vars

(***************************************************************************)
(* C23: PushArc(s) is never issued for a state whose arcs are marked       *)
(* complete: every Expand(s) that InitArcIterator, NumInputEpsilons or     *)
(* NumOutputEpsilons makes happens only while HasArcs(s) is false, and     *)
(* within one Expand every PushArc and SetFinal precedes the single        *)
(* SetArcs.  Stated of the calls each of these handlers issues from every  *)
(* reachable cache, for every state of the FST.                            *)
(***************************************************************************)
C23_Discipline(log) ==
    /\ \A i \in 1..Len(log) : log[i].op \in {"Expand", "PushArc"} => ~log[i].complete
    /\ (log # <<>>) =>
          /\ log[1].op = "Expand"
          /\ log[Len(log)].op = "SetArcs"
          /\ \A i \in 2..(Len(log) - 1) : log[i].op \in {"PushArc", "SetFinal"}

C23_ExpandOnlyIncomplete ==
    (phase = "built") =>
        \A s \in 0..(ImplNumStates(props, data) - 1) :
            /\ C23_Discipline(InitArcIterator(cache, compactor, data, s).log)
            /\ \A o \in BOOLEAN :
                   C23_Discipline(NumEpsilons(cache, compactor, data, props, s, o).log)

\* A state with two arcs and a final weight has been expanded into the cache.
C23_Witness ==
    /\ phase = "built"
    /\ \E s \in DOMAIN cache.st :
         /\ s < ImplNumStates(props, data)
         /\ cache.st[s].has_arcs
         /\ Len(cache.st[s].arcs) = 2
         /\ cache.st[s].final = WOne

(***************************************************************************)
(* C24: the answers do not depend on the cache: for every state s, Final(s)*)
(* and NumArcs(s) answered with whatever is cached equal the answers       *)
(* computed directly from the store, and the arcs cached by Expand(s) are  *)
(* the arcs the direct iterator yields, in the same order, whichever       *)
(* states the garbage collector has evicted.                               *)
(***************************************************************************)
C24_CacheTransparent ==
    (phase = "built") =>
        \A s \in 0..(ImplNumStates(props, data) - 1) :
            /\ Final(cache, compactor, data, s) = ImplFinal(compactor, data, s)
            /\ NumArcs(cache, compactor, data, s) = ImplNumArcs(compactor, data, s)
            /\ CacheState(cache, s).has_arcs =>
                   CacheState(cache, s).arcs = IteratedArcs(compactor, data, s)

\* A final state with an arc is cached while another state has been evicted
\* or never expanded.
C24_Witness ==
    /\ phase = "built"
    /\ ImplNumStates(props, data) = 2
    /\ \E s \in DOMAIN cache.st :
         /\ cache.st[s].has_arcs
         /\ Len(cache.st[s].arcs) = 1
         /\ cache.st[s].final = WOther
         /\ (1 - s) \notin DOMAIN cache.st

(***************************************************************************)
(* C28: for a CompactFst that asserts ILabelSorted (OLabelSorted) and a    *)
(* state s whose arcs are not cached, NumInputEpsilons(s)                  *)
(* (NumOutputEpsilons(s)) is the number of arcs leaving s whose input      *)
(* (output) label is 0, the same value it returns once s is expanded.      *)
(***************************************************************************)
C28_Label(arc, o) == IF o THEN arc.olabel ELSE arc.ilabel
C28_Asserted(o) == IF o THEN "kOLabelSorted" \in props ELSE "kILabelSorted" \in props
C28_Epsilons(s, o) ==
    Cardinality({j \in 1..Len(IteratedArcs(compactor, data, s)) :
                    C28_Label(IteratedArcs(compactor, data, s)[j], o) = 0})

C28_SortedEpsilonCount ==
    (phase = "built") =>
        \A s \in 0..(ImplNumStates(props, data) - 1) : \A o \in BOOLEAN :
            (C28_Asserted(o) /\ ~CacheState(cache, s).has_arcs) =>
                /\ NumEpsilons(cache, compactor, data, props, s, o).ret = C28_Epsilons(s, o)
                /\ NumEpsilons(ImplExpand(cache, compactor, data, s).cache,
                               compactor, data, props, s, o).ret = C28_Epsilons(s, o)

\* A sorted FST with an uncached final state that has an epsilon arc followed
\* by a labelled arc, another state of it being cached.
C28_Witness ==
    /\ phase = "built"
    /\ C28_Asserted(FALSE)
    /\ cache.st # <<>>
    /\ \E s \in 0..(ImplNumStates(props, data) - 1) :
         /\ ~CacheState(cache, s).has_arcs
         /\ ImplFinal(compactor, data, s) # WZero
         /\ Len(IteratedArcs(compactor, data, s)) = 2
         /\ IteratedArcs(compactor, data, s)[1].ilabel = 0
         /\ IteratedArcs(compactor, data, s)[2].ilabel > 0

(***************************************************************************)
(* C26: after SetCompactElements(begin, end) completes without error,      *)
(* Start(), Final(s), NumArcs(s) and the arcs InitArcIterator(s) gives     *)
(* access to describe the new element sequence, whatever was cached        *)
(* before the call.                                                        *)
(***************************************************************************)
C26_AfterSet == phase = "built" /\ src.kind = "set" /\ "kError" \notin props

C26_SetReplacesCached ==
    C26_AfterSet =>
        /\ ImplStart(cache, data).ret = data.start
        /\ \A s \in 0..(ImplNumStates(props, data) - 1) :
               /\ Final(cache, compactor, data, s) = ImplFinal(compactor, data, s)
               /\ NumArcs(cache, compactor, data, s) = ImplNumArcs(compactor, data, s)
               /\ CacheState(InitArcIterator(cache, compactor, data, s).cache, s).arcs
                      = IteratedArcs(compactor, data, s)

(***************************************************************************)
(* C27: within one FarExtract call no two extracted FSTs are written to    *)
(* the same path, with generated numeric names as well as with key names,  *)
(* for any list of keys and ranges, including a key that is requested      *)
(* again after other keys.                                                 *)
(***************************************************************************)
C27_DistinctPaths ==
    (far.phase = "extracted") =>
        \A i, j \in 1..Len(far.result.written) :
            (i # j) => (far.result.written[i].path # far.result.written[j].path)

(***************************************************************************)
(* State iteration over a CompactFst.                                      *)
(***************************************************************************)
\* StateIterator<CompactFst>(fst): nstates_ is the implementation's
\* NumStates(), s_ starts at 0; Done() is s_ >= nstates_.
StateIterator(p, d) == [nstates_ |-> ImplNumStates(p, d), s_ |-> 0]

\* CompactFstImpl::InitStateIterator(data): no iterator object, and the
\* number of states of the store.
InitStateIterator(d) == [base |-> "nullptr", nstates |-> d.nstates]

(***************************************************************************)
(* C25: while the Error property is set on a CompactFst, NumStates()       *)
(* returns 0, the specialised StateIterator is Done() at once, and         *)
(* InitStateIterator reports nstates = 0.                                  *)
(***************************************************************************)
C25_ErrorHidesStates ==
    (phase = "built" /\ "kError" \in props) =>
        /\ ImplNumStates(props, data) = 0
        /\ StateIterator(props, data).s_ >= StateIterator(props, data).nstates_
        /\ InitStateIterator(data).nstates = 0

(***************************************************************************)
(* C29: ArcIterator::SetFlags(f, m) changes only the flag bits that the    *)
(* mask m selects: every bit outside m is after the call as it was before. *)
(***************************************************************************)
C29_SetFlagsWithinMask ==
    [][\A f \in SUBSET {"kArcILabelValue", "kArcNoCache"},
          m \in SUBSET {"kArcILabelValue", "kArcNoCache"} :
          (aiter.live /\ aiter' = [aiter EXCEPT !.flags = SetFlags(aiter.flags, f, m)])
              => (aiter'.flags \ m = aiter.flags \ m)]_vars

(***************************************************************************)
(* C30: every position held in the Unsigned index type equals the true     *)
(* position in the compact element array, and a store with more compact    *)
(* elements than the largest Unsigned value is rejected with the error     *)
(* flag set rather than stored with positions modulo 2^w.                  *)
(***************************************************************************)
C30_PositionsExact ==
    (narrow.phase = "built") =>
        IF SumSeq(narrow.degrees) > (2 ^ narrow.bits) - 1
        THEN narrow.data.error
        ELSE \A s \in 0..Len(narrow.degrees) :
                 narrow.data.states[s + 1] = SumSeq(SubSeq(narrow.degrees, 1, s))

====
